---- MODULE Spec2Model ----
(***************************************************************************)
(* A model of compylr: the finite-state-automata engine (src/fsa.py), the  *)
(* LR(1) parser generator (src/parsergen.py), the regex compiler           *)
(* (src/regexpr.py), the lexer generator (src/lexergen.py) and the runtime *)
(* lexer (src/lexer.py).  The algorithms are pure functions of their       *)
(* inputs; each is an operator that follows the code's work-list loop, and *)
(* the specifications build the inputs with the program's own mutators and *)
(* then apply the algorithms.                                              *)
(***************************************************************************)
EXTENDS Integers, Sequences, FiniteSets, TLC

VARIABLES
    pc,       \* the phase of the run
    nfa,      \* the NFA under construction (an fsa.NFA object)
    efree,    \* the NFA returned by nfa.remove_epsilons()
    state_ids,\* remove_epsilons' map from the states of nfa to those of efree
    dfa,      \* the DFA returned by get_dfa() / union()
    lhs,      \* the left operand of the last DFA.union call
    rhs,      \* the right operand of the last DFA.union call
    sink,     \* the last is_sink_state call: its argument, explored set and answer
    eclosure, \* the epsilon_closure call under way: its argument and locals
    rules,    \* ParserGenerator.rules: the list of Productions
    first,    \* ParserGenerator.first: the FIRST set of each non-terminal
    table,    \* ParserGenerator.table: the parsing table over state IDs
    gen,      \* generate's locals: the table over item sets, explored, state_ids
    out,      \* what the last print_table / print_dfa call printed or raised
    lexer,    \* a Lexer object and the outcome of its last call
    regex     \* the regular expression given to the regex compiler

lrVars == <<rules, first, table, gen>>
fsaVars == <<nfa, efree, state_ids, dfa, lhs, rhs, sink, eclosure>>
ioVars == <<out, lexer, regex>>
vars == <<pc, nfa, efree, state_ids, dfa, lhs, rhs, sink, eclosure, rules, first,
         table, gen,
         out, lexer, regex>>

(***************************************************************************)
(* Bounds of the model.                                                    *)
(***************************************************************************)
\* The size of the byte alphabet (256 in src/fsa.py:12), cut down.
NUM_CHARS == 1
\* The number of states an NFA under construction may allocate.
MaxStates == 2
\* The number of add_transition calls on an NFA under construction.
MaxEdges == 2
\* The length of the token strings on which a parsing table is run.
MaxTokens == 3
\* The length of the source given to the regex Lexer.
MaxSource == 4
\* The length of the input strings on which languages are compared.
MaxLen == 2
\* The number of states of a DFA built by hand with add_state.
MaxDfaStates == 2
\* The size of the byte alphabet in the runs of the regex compiler.
RegexNumChars == 4
\* The operators and extra class items of a regular expression.
MaxRegexSize == 2

\* NUM_CHARS as the run has it: the automata of the regex compiler's runs
\* are over the bytes below RegexNumChars, all others over those below
\* NUM_CHARS.
NumChars == IF pc \in {"regex", "compiled"} THEN RegexNumChars ELSE NUM_CHARS
EPSILON == NumChars
Chars == 0 .. (NumChars - 1)
\* The terminal tags attached to accepting states.
Tags == {1, 2}
\* No object: the value of a variable that holds no result yet.
None == [none |-> TRUE]

(***************************************************************************)
(* Python containers.                                                      *)
(***************************************************************************)
\* dict.get(k, d)
Get(f, k, d) == IF k \in DOMAIN f THEN f[k] ELSE d
\* d[k] = v
Put(f, k, v) == (k :> v) @@ f
\* list[i]: a negative index counts from the end of the list.
PyIndex(list, i) == IF i < 0 THEN list[Len(list) + i + 1] ELSE list[i + 1]
\* list.pop()
Top(list) == list[Len(list)]
Pop(list) == SubSeq(list, 1, Len(list) - 1)

\* The elements of a set of integers in the order a for loop visits them
\* (sets of small non-negative integers iterate in increasing order).
RECURSIVE SetToSeq(_)
SetToSeq(S) ==
    IF S = {} THEN << >>
    ELSE LET m == CHOOSE x \in S : \A y \in S : x <= y
         IN  <<m>> \o SetToSeq(S \ {m})

(***************************************************************************)
(* class DFA                                                               *)
(***************************************************************************)
DFA_init == [transitions |-> << >>, outputs |-> << >>, initial_state |-> -1]

DFA_add_state(d) ==
    [d EXCEPT !.transitions = Append(@, [c \in Chars |-> -1])]

(***************************************************************************)
(* DFA.is_sink_state: the explored set and the answer.                     *)
(***************************************************************************)
RECURSIVE is_sink_loop(_, _, _)
is_sink_loop(self, explored, frontier) ==
    IF frontier = {} THEN [result |-> TRUE, explored |-> explored]
    ELSE LET state == CHOOSE s \in frontier : TRUE
             explored1 == explored \cup {state}
         IN  IF Cardinality(Get(self.outputs, state, {})) > 0
             THEN [result |-> FALSE, explored |-> explored1]
             ELSE is_sink_loop(self, explored1,
                      (frontier \ {state}) \cup
                      { next_state \in
                            { PyIndex(self.transitions, state)[c] : c \in Chars } :
                        next_state \notin explored1 })

is_sink_run(self, state) == is_sink_loop(self, {}, {state})

is_sink_state(self, state) == is_sink_run(self, state).result

(***************************************************************************)
(* DFA.union: product construction over a stack of pairs.                  *)
(***************************************************************************)
RECURSIVE union_symbols(_, _, _, _, _)
union_symbols(self, other, u, pair, symbol) ==
    IF symbol = NumChars THEN u
    ELSE LET state == u.state_map[pair]
             next_pair == << PyIndex(self.transitions, pair[1])[symbol],
                             PyIndex(other.transitions, pair[2])[symbol] >>
             u1 == IF next_pair \notin DOMAIN u.state_map
                   THEN [dfa |-> DFA_add_state(u.dfa),
                         state_map |-> Put(u.state_map, next_pair,
                                           Len(u.dfa.transitions)),
                         frontier |-> Append(u.frontier, next_pair)]
                   ELSE u
             u2 == [u1 EXCEPT !.dfa.transitions[state + 1][symbol] =
                                  u1.state_map[next_pair]]
         IN  union_symbols(self, other, u2, pair, symbol + 1)

\* union_outputs with the right operand's outputs left out.
union_outputs_lhs_only(self, other, d, pair, state) ==
    LET lhs_outputs == Get(self.outputs, pair[1], {})
    IN  IF Cardinality(lhs_outputs) > 0
        THEN [d EXCEPT !.outputs = Put(@, state, Get(@, state, {}) \cup lhs_outputs)]
        ELSE d

union_outputs(self, other, d, pair, state) ==
    LET lhs_outputs == Get(self.outputs, pair[1], {})
        rhs_outputs == Get(other.outputs, pair[2], {})
    IN  IF Cardinality(lhs_outputs) > 0 \/ Cardinality(rhs_outputs) > 0
        THEN [d EXCEPT !.outputs =
                 Put(@, state, Get(@, state, {}) \cup lhs_outputs \cup rhs_outputs)]
        ELSE d

RECURSIVE union_loop(_, _, _)
union_loop(self, other, u) ==
    IF Len(u.frontier) = 0 THEN u.dfa
    ELSE LET pair == Top(u.frontier)
             u1 == union_symbols(self, other,
                                 [u EXCEPT !.frontier = Pop(@)], pair, 0)
         IN  union_loop(self, other,
                 [u1 EXCEPT !.dfa = union_outputs(self, other, @, pair,
                                                  u1.state_map[pair])])

union(self, other) ==
    LET d0 == [DFA_add_state(DFA_init) EXCEPT !.initial_state = 0]
        pair == <<self.initial_state, other.initial_state>>
    IN  union_loop(self, other,
            [dfa |-> d0,
             state_map |-> Put(<< >>, pair, d0.initial_state),
             frontier |-> <<pair>>])

(***************************************************************************)
(* class NFA                                                               *)
(***************************************************************************)
NFA_init == [next_state |-> -1, transitions |-> << >>, outputs |-> << >>,
             initial_state |-> -1]

NFA_add_state(n) == [n EXCEPT !.next_state = @ + 1]

add_transition(n, old_state, new_state, symbol) ==
    LET key == <<old_state, symbol>>
    IN  [n EXCEPT !.transitions = Put(@, key, Get(@, key, {}) \cup {new_state})]

(***************************************************************************)
(* NFA.epsilon_closure: a stack of states; a popped state joins the        *)
(* closure, and its EPSILON successors not yet in the closure are pushed.  *)
(* e is the loop's state: the closure, the frontier, and pushed, the       *)
(* states appended to the frontier so far, in the order of the appends.    *)
(***************************************************************************)
\* One pass of the loop in which a state without EPSILON transitions ends
\* the loop.
epsilon_closure_step_break(transitions, e) ==
    LET state == Top(e.frontier)
        closure1 == e.closure \cup {state}
        key == <<state, EPSILON>>
    IN  IF key \notin DOMAIN transitions
        THEN [e EXCEPT !.closure = closure1, !.frontier = << >>]
        ELSE LET new == SelectSeq(SetToSeq(transitions[key]),
                                  LAMBDA s : s \notin closure1)
             IN  [closure |-> closure1,
                  frontier |-> Pop(e.frontier) \o new,
                  pushed |-> e.pushed \o new]

\* One pass of the while loop (src/fsa.py:241-249).
epsilon_closure_step(transitions, e) ==
    LET state == Top(e.frontier)
        closure1 == e.closure \cup {state}
        key == <<state, EPSILON>>
    IN  IF key \notin DOMAIN transitions
        THEN [e EXCEPT !.closure = closure1, !.frontier = Pop(@)]
        ELSE LET new == SelectSeq(SetToSeq(transitions[key]),
                                  LAMBDA s : s \notin closure1)
             IN  [closure |-> closure1,
                  frontier |-> Pop(e.frontier) \o new,
                  pushed |-> e.pushed \o new]

RECURSIVE epsilon_closure_loop(_, _)
epsilon_closure_loop(transitions, e) ==
    IF Len(e.frontier) = 0 THEN e
    ELSE epsilon_closure_loop(transitions, epsilon_closure_step(transitions, e))

\* The locals before the loop (src/fsa.py:237-238).
epsilon_closure_start(state) ==
    [closure |-> {}, frontier |-> <<state>>, pushed |-> <<state>>]

\* epsilon_closure that follows no transition.
epsilon_closure_state_only(self, state) == {state}

epsilon_closure(self, state) ==
    epsilon_closure_loop(self.transitions, epsilon_closure_start(state)).closure

(***************************************************************************)
(* NFA.remove_epsilons.  r is the loop's state: the new NFA, state_ids,    *)
(* the frontier and the explored set.  The loop over the closure assigns   *)
(* outputs[new_state] once per accepting member, each assignment replacing *)
(* the one before: what stays is the output of the member visited last,    *)
(* which is last[state]; the order of a set's iteration is not fixed by    *)
(* the language, so last is an input.                                      *)
(***************************************************************************)
get_new_state(r, state) ==
    IF state \notin DOMAIN r.state_ids
    THEN [r EXCEPT !.nfa = NFA_add_state(@),
                   !.state_ids = Put(@, state, r.nfa.next_state + 1)]
    ELSE r

\* The (symbol, next_state) pairs of the non-EPSILON transitions that leave
\* the states of a closure, in the order the loops visit them.
RECURSIVE closure_edges(_, _)
closure_edges(self, closure_seq) ==
    IF Len(closure_seq) = 0 THEN << >>
    ELSE LET s == Head(closure_seq)
             RECURSIVE of_symbol(_)
             of_symbol(symbol) ==
                 IF symbol = NumChars THEN << >>
                 ELSE LET states == SetToSeq(Get(self.transitions, <<s, symbol>>, {}))
                      IN  [i \in 1 .. Len(states) |-> <<symbol, states[i]>>]
                          \o of_symbol(symbol + 1)
         IN  of_symbol(0) \o closure_edges(self, Tail(closure_seq))

RECURSIVE remove_epsilons_edges(_, _, _)
remove_epsilons_edges(r, new_state, edges) ==
    IF Len(edges) = 0 THEN r
    ELSE LET symbol == Head(edges)[1]
             next_state == Head(edges)[2]
             r1 == get_new_state(r, next_state)
             r2 == [r1 EXCEPT
                      !.nfa = add_transition(@, new_state,
                                             r1.state_ids[next_state], symbol),
                      !.frontier = Append(@, next_state)]
         IN  remove_epsilons_edges(r2, new_state, Tail(edges))

RECURSIVE remove_epsilons_loop(_, _, _)
remove_epsilons_loop(self, last, r) ==
    IF Len(r.frontier) = 0 THEN r
    ELSE LET state == Top(r.frontier)
             r0 == [r EXCEPT !.frontier = Pop(@)]
         IN  IF state \in r0.explored
             THEN remove_epsilons_loop(self, last, r0)
             ELSE LET r1 == get_new_state([r0 EXCEPT !.explored = @ \cup {state}],
                                          state)
                      new_state == r1.state_ids[state]
                      closure == epsilon_closure(self, state)
                      r2 == IF closure \cap DOMAIN self.outputs # {}
                            THEN [r1 EXCEPT !.nfa.outputs =
                                     Put(@, new_state, self.outputs[last[state]])]
                            ELSE r1
                  IN  remove_epsilons_loop(self, last,
                          remove_epsilons_edges(r2, new_state,
                              closure_edges(self, SetToSeq(closure))))

remove_epsilons_run(self, last) ==
    LET r == get_new_state([nfa |-> NFA_init, state_ids |-> << >>,
                            frontier |-> <<self.initial_state>>,
                            explored |-> {}],
                           self.initial_state)
    IN  remove_epsilons_loop(self, last,
            [r EXCEPT !.nfa.initial_state = r.state_ids[self.initial_state]])

remove_epsilons(self, last) == remove_epsilons_run(self, last).nfa

\* The accepting members of the closures: the values last may take.
NFA_states(self) == 0 .. self.next_state
LastChoices(self) ==
    LET RECURSIVE of_states(_)
        of_states(S) ==
            IF S = {} THEN { << >> }
            ELSE LET s == CHOOSE s \in S : TRUE
                     acc == epsilon_closure(self, s) \cap DOMAIN self.outputs
                     rest == of_states(S \ {s})
                 IN  { (s :> t) @@ f : t \in (IF acc = {} THEN {-1} ELSE acc),
                                       f \in rest }
    IN  of_states(NFA_states(self))

(***************************************************************************)
(* NFA.get_dfa: powerset construction over a stack of sets of states.      *)
(***************************************************************************)
\* get_dfa_symbols that gives the empty set of states no DFA state: the
\* entry of a symbol without transitions is left as add_state made it.
RECURSIVE get_dfa_symbols_skip_empty(_, _, _, _)
get_dfa_symbols_skip_empty(self, g, states, symbol) ==
    IF symbol = NumChars THEN g
    ELSE LET next_states ==
                 UNION { Get(self.transitions, <<state, symbol>>, {}) :
                         state \in states }
             g1 == IF next_states \notin DOMAIN g.state_map
                   THEN [dfa |-> DFA_add_state(g.dfa),
                         state_map |-> Put(g.state_map, next_states,
                                           Len(g.dfa.transitions)),
                         frontier |-> Append(g.frontier, next_states)]
                   ELSE g
             g2 == [g1 EXCEPT !.dfa.transitions[g1.state_map[states] + 1][symbol] =
                                  g1.state_map[next_states]]
         IN  IF next_states = {}
             THEN get_dfa_symbols_skip_empty(self, g, states, symbol + 1)
             ELSE get_dfa_symbols_skip_empty(self, g2, states, symbol + 1)

RECURSIVE get_dfa_symbols(_, _, _, _)
get_dfa_symbols(self, g, states, symbol) ==
    IF symbol = NumChars THEN g
    ELSE LET next_states ==
                 UNION { Get(self.transitions, <<state, symbol>>, {}) :
                         state \in states }
             g1 == IF next_states \notin DOMAIN g.state_map
                   THEN [dfa |-> DFA_add_state(g.dfa),
                         state_map |-> Put(g.state_map, next_states,
                                           Len(g.dfa.transitions)),
                         frontier |-> Append(g.frontier, next_states)]
                   ELSE g
             g2 == [g1 EXCEPT !.dfa.transitions[g1.state_map[states] + 1][symbol] =
                                  g1.state_map[next_states]]
         IN  get_dfa_symbols(self, g2, states, symbol + 1)

\* get_dfa_outputs in which each state's outputs replace those before it.
get_dfa_outputs_overwrite(self, g, states) ==
    LET accepting == states \cap DOMAIN self.outputs
        outputs == IF accepting = {} THEN {}
                   ELSE self.outputs[CHOOSE s \in accepting :
                                         \A t \in accepting : t <= s]
    IN  IF Cardinality(outputs) > 0
        THEN [g EXCEPT !.dfa.outputs = Put(@, g.state_map[states], outputs)]
        ELSE g

get_dfa_outputs(self, g, states) ==
    LET outputs == UNION { Get(self.outputs, state, {}) : state \in states }
    IN  IF Cardinality(outputs) > 0
        THEN [g EXCEPT !.dfa.outputs = Put(@, g.state_map[states], outputs)]
        ELSE g

RECURSIVE get_dfa_loop(_, _)
get_dfa_loop(self, g) ==
    IF Len(g.frontier) = 0 THEN g.dfa
    ELSE LET states == Top(g.frontier)
             g1 == get_dfa_symbols(self, [g EXCEPT !.frontier = Pop(@)], states, 0)
         IN  get_dfa_loop(self, get_dfa_outputs(self, g1, states))

get_dfa(self) ==
    LET d0 == [DFA_add_state(DFA_init) EXCEPT !.initial_state = 0]
        states == {self.initial_state}
    IN  get_dfa_loop(self,
            [dfa |-> d0,
             state_map |-> Put(<< >>, states, d0.initial_state),
             frontier |-> <<states>>])

(***************************************************************************)
(* regexpr.accept and the one-character fragments it is applied to.        *)
(***************************************************************************)
\* accept's two assignments (src/regexpr.py:58-59).
accept_nfa(n, q0, q1, output) ==
    [n EXCEPT !.initial_state = q0, !.outputs = Put(@, q1, {output})]

\* r9: a fresh q0 -c-> q1.
r9(n, c) ==
    add_transition(NFA_add_state(NFA_add_state(n)),
                   n.next_state + 1, n.next_state + 2, c)

\* The DFA of the regex that is the single character c, tagged output.
char_dfa(c, output) ==
    LET n == accept_nfa(r9(NFA_init, c), 0, 1, output)
    IN  get_dfa(remove_epsilons(n, CHOOSE last \in LastChoices(n) : TRUE))

\* The inputs the actions draw.  States, bytes and tags are interchangeable:
\* the first state allocated is taken as the entry, a state is given the
\* first tag before accept, and the token a DFA is united with is the first
\* byte under the last tag.
EntryStates == {0}
SetOutputTags == {1}
OtherDFAs == { char_dfa(0, 2) }

(***************************************************************************)
(* The pipeline: an NFA is built with add_state and add_transition, some   *)
(* states are given outputs, accept turns it into a DFA, and the DFA is    *)
(* united with the DFAs of other tokens.                                   *)
(***************************************************************************)
NumEdges(n) ==
    Cardinality({ e \in NFA_states(n) \X (0 .. EPSILON) \X NFA_states(n) :
                    e[3] \in Get(n.transitions, <<e[1], e[2]>>, {}) })

Init ==
    /\ pc = "build"
    /\ nfa = NFA_init
    /\ efree = None
    /\ state_ids = None
    /\ dfa = None
    /\ lhs = None
    /\ rhs = None
    /\ sink = None
    /\ eclosure = None
    /\ rules = None
    /\ first = None
    /\ table = None
    /\ gen = None
    /\ out = None
    /\ regex = None
    /\ lexer = None

AddState ==
    /\ pc = "build"
    /\ nfa.next_state + 1 < MaxStates
    /\ nfa' = NFA_add_state(nfa)
    /\ UNCHANGED <<pc, efree, state_ids, dfa, lhs, rhs, sink, lrVars, ioVars, eclosure>>

AddTransition ==
    /\ pc = "build"
    /\ NumEdges(nfa) < MaxEdges
    /\ \E old_state \in NFA_states(nfa), new_state \in NFA_states(nfa),
          symbol \in 0 .. EPSILON :
           /\ new_state \notin Get(nfa.transitions, <<old_state, symbol>>, {})
           /\ nfa' = add_transition(nfa, old_state, new_state, symbol)
    /\ UNCHANGED <<pc, efree, state_ids, dfa, lhs, rhs, sink, lrVars, ioVars, eclosure>>

\* nfa.outputs[state] = {output}, as src/regexpr.py:59 assigns it: one state is
\* given an output before accept gives one to the exit.
SetOutput ==
    /\ pc = "build"
    /\ \E state \in NFA_states(nfa), output \in SetOutputTags :
           /\ DOMAIN nfa.outputs = {}
           /\ nfa' = [nfa EXCEPT !.outputs = Put(@, state, {output})]
    /\ UNCHANGED <<pc, efree, state_ids, dfa, lhs, rhs, sink, lrVars, ioVars, eclosure>>

\* regexpr.accept: the fragment (q0, q1) becomes the whole automaton.
Accept ==
    /\ pc = "build"
    /\ nfa.next_state >= 0
    /\ \E q0 \in EntryStates, q1 \in NFA_states(nfa), output \in Tags :
           LET n == accept_nfa(nfa, q0, q1, output)
           IN  \E last \in LastChoices(n) :
                   LET r == remove_epsilons_run(n, last)
                   IN  /\ nfa' = n
                       /\ efree' = r.nfa
                       /\ state_ids' = r.state_ids
                       /\ dfa' = get_dfa(r.nfa)
    /\ pc' = "dfa"
    /\ UNCHANGED <<lhs, rhs, sink, lrVars, ioVars, eclosure>>

\* LexerGenerator.compute_dfa: dfa = dfa.union(other).
Union ==
    /\ pc = "dfa"
    /\ \E other \in OtherDFAs, swap \in BOOLEAN :
           /\ lhs' = IF swap THEN other ELSE dfa
           /\ rhs' = IF swap THEN dfa ELSE other
           /\ dfa' = union(lhs', rhs')
    /\ pc' = "union"
    /\ UNCHANGED <<nfa, efree, state_ids, sink, lrVars, ioVars, eclosure>>

Next == AddState \/ AddTransition \/ SetOutput \/ Accept \/ Union

Spec == Init /\ [][Next]_vars

(***************************************************************************)
(* LexerGenerator.print_dfa (src/lexergen.py).  What is printed is kept as *)
(* the tables the printed code defines: the initial state, the transitions *)
(* dictionary, and for each state the terminals of its output lines.       *)
(***************************************************************************)
sink_states(dfa_) ==
    { state \in 0 .. (Len(dfa_.transitions) - 1) : is_sink_state(dfa_, state) }

\* The printed transitions, with no test of next_state.
print_transitions_all_targets(dfa_) ==
    LET sinks == sink_states(dfa_)
    IN  [key \in { k \in (0 .. (Len(dfa_.transitions) - 1)) \X Chars :
                     k[1] \notin sinks }
            |-> dfa_.transitions[key[1] + 1][key[2]]]

\* The lines (state, c):next_state.
print_transitions(dfa_) ==
    LET sinks == sink_states(dfa_)
    IN  [key \in { k \in (0 .. (Len(dfa_.transitions) - 1)) \X Chars :
                     /\ k[1] \notin sinks
                     /\ dfa_.transitions[k[1] + 1][k[2]] \notin sinks }
            |-> dfa_.transitions[key[1] + 1][key[2]]]

\* The lines state:terminal.  A set of one terminal is printed by popping it
\* from dfa.outputs[state]; the pop of an empty set is a KeyError.
print_dfa(dfa_) ==
    [out |-> [initial_state |-> dfa_.initial_state,
              transitions |-> print_transitions(dfa_),
              outputs |-> [state \in DOMAIN dfa_.outputs |-> dfa_.outputs[state]],
              num_conflicts |-> Cardinality({ state \in DOMAIN dfa_.outputs :
                                    Cardinality(dfa_.outputs[state]) > 1 }),
              error |-> IF \E state \in DOMAIN dfa_.outputs :
                               dfa_.outputs[state] = {}
                        THEN "KeyError" ELSE ""],
     dfa |-> [dfa_ EXCEPT !.outputs =
                 [state \in DOMAIN dfa_.outputs |->
                     IF Cardinality(dfa_.outputs[state]) > 1
                     THEN dfa_.outputs[state] ELSE {}]]]

\* generator.print_dfa(), on the DFA compute_dfa returned.
PrintDfa ==
    /\ pc \in {"dfa", "union"}
    /\ LET printed_dfa == print_dfa(dfa)
       IN  out' = printed_dfa.out /\ dfa' = printed_dfa.dfa
    /\ pc' = IF pc = "dfa" THEN "dfa printed" ELSE "union printed"
    /\ UNCHANGED <<nfa, efree, state_ids, lhs, rhs, sink, lrVars, lexer, regex, eclosure>>

\* The pipeline, and print_dfa on the DFA it ends with.
NextLexerGenerator ==
    AddState \/ AddTransition \/ SetOutput \/ Accept \/ Union \/ PrintDfa

SpecLexerGenerator == Init /\ [][NextLexerGenerator]_vars

(***************************************************************************)
(* DFAs built by hand: add_state, and direct assignment to the entries of  *)
(* transitions and outputs, which may leave entries at -1.  The left       *)
(* operand's states are tagged 1 and the right operand's 2.                *)
(***************************************************************************)
DFA_states(d) == 0 .. (Len(d.transitions) - 1)

\* dfa.initial_state = dfa.add_state() for the first state, add_state() after.
hand_add_state(d) ==
    IF Len(d.transitions) = 0
    THEN [DFA_add_state(d) EXCEPT !.initial_state = 0]
    ELSE DFA_add_state(d)

\* dfa.transitions[state][symbol] = next_state
set_transition(d, state, symbol, next_state) ==
    [d EXCEPT !.transitions[state + 1][symbol] = next_state]

InitDFA ==
    /\ pc = "build"
    /\ lhs = DFA_init
    /\ rhs = DFA_init
    /\ dfa = None
    /\ sink = None
    /\ eclosure = None
    /\ rules = None
    /\ first = None
    /\ table = None
    /\ gen = None
    /\ nfa = None
    /\ efree = None
    /\ state_ids = None
    /\ out = None
    /\ regex = None
    /\ lexer = None

LhsAddState ==
    /\ pc = "build"
    /\ Len(lhs.transitions) < MaxDfaStates
    /\ lhs' = hand_add_state(lhs)
    /\ UNCHANGED <<pc, nfa, efree, state_ids, dfa, rhs, sink, lrVars, ioVars, eclosure>>

RhsAddState ==
    /\ pc = "build"
    /\ Len(rhs.transitions) < MaxDfaStates
    /\ rhs' = hand_add_state(rhs)
    /\ UNCHANGED <<pc, nfa, efree, state_ids, dfa, lhs, sink, lrVars, ioVars, eclosure>>

LhsSetTransition ==
    /\ pc = "build"
    /\ \E state \in DFA_states(lhs), symbol \in Chars, next_state \in DFA_states(lhs) :
           lhs' = set_transition(lhs, state, symbol, next_state)
    /\ UNCHANGED <<pc, nfa, efree, state_ids, dfa, rhs, sink, lrVars, ioVars, eclosure>>

RhsSetTransition ==
    /\ pc = "build"
    /\ \E state \in DFA_states(rhs), symbol \in Chars, next_state \in DFA_states(rhs) :
           rhs' = set_transition(rhs, state, symbol, next_state)
    /\ UNCHANGED <<pc, nfa, efree, state_ids, dfa, lhs, sink, lrVars, ioVars, eclosure>>

LhsSetOutput ==
    /\ pc = "build"
    /\ \E state \in DFA_states(lhs) :
           lhs' = [lhs EXCEPT !.outputs = Put(@, state, {1})]
    /\ UNCHANGED <<pc, nfa, efree, state_ids, dfa, rhs, sink, lrVars, ioVars, eclosure>>

RhsSetOutput ==
    /\ pc = "build"
    /\ \E state \in DFA_states(rhs) :
           rhs' = [rhs EXCEPT !.outputs = Put(@, state, {2})]
    /\ UNCHANGED <<pc, nfa, efree, state_ids, dfa, lhs, sink, lrVars, ioVars, eclosure>>

\* lhs.union(rhs)
HandUnion ==
    /\ pc = "build"
    /\ Len(lhs.transitions) > 0
    /\ Len(rhs.transitions) > 0
    /\ dfa' = union(lhs, rhs)
    /\ pc' = "union"
    /\ UNCHANGED <<nfa, efree, state_ids, lhs, rhs, sink, lrVars, ioVars, eclosure>>

\* lhs.is_sink_state(state)
IsSinkState ==
    /\ pc = "build"
    /\ \E state \in DFA_states(lhs) :
           sink' = [state |-> state,
                    result |-> is_sink_state(lhs, state),
                    explored |-> is_sink_run(lhs, state).explored]
    /\ pc' = "sink"
    /\ UNCHANGED <<nfa, efree, state_ids, dfa, lhs, rhs, lrVars, ioVars, eclosure>>

NextDFA ==
    \/ LhsAddState \/ RhsAddState
    \/ LhsSetTransition \/ RhsSetTransition
    \/ LhsSetOutput \/ RhsSetOutput
    \/ HandUnion \/ IsSinkState

SpecDFA == InitDFA /\ [][NextDFA]_vars

(***************************************************************************)
(* A call of NFA.epsilon_closure on its own: the NFA is any that add_state *)
(* and add_transition build, the argument is any of its states, and each   *)
(* pass of the while loop is a step.                                       *)
(***************************************************************************)
\* The number of states of the NFA whose closures are computed.
MaxClosureStates == 3
\* The number of transitions of that NFA.
MaxClosureEdges == 3

InitClosure ==
    /\ pc = "closure"
    /\ LET states == 0 .. (MaxClosureStates - 1)
           \* the loop reads the EPSILON keys only: byte 0 stands for the others
           edges == states \X {0, EPSILON} \X states
           RECURSIVE edge_sets(_)
           edge_sets(k) ==
               IF k = 0 THEN { {} }
               ELSE LET smaller == edge_sets(k - 1)
                    IN  smaller \cup { E \cup {e} : E \in smaller, e \in edges }
           RECURSIVE allocate(_, _)
           allocate(n, k) ==
               IF k = 0 THEN n ELSE allocate(NFA_add_state(n), k - 1)
           RECURSIVE add_transitions(_, _)
           add_transitions(n, E) ==
               IF E = {} THEN n
               ELSE LET e == CHOOSE e \in E : TRUE
                    IN  add_transitions(add_transition(n, e[1], e[3], e[2]),
                                        E \ {e})
       IN  \E E \in edge_sets(MaxClosureEdges), state \in states :
               /\ nfa = add_transitions(allocate(NFA_init, MaxClosureStates), E)
               /\ eclosure = [state |-> state, e |-> epsilon_closure_start(state)]
    /\ efree = None
    /\ state_ids = None
    /\ dfa = None
    /\ lhs = None
    /\ rhs = None
    /\ sink = None
    /\ rules = None
    /\ first = None
    /\ table = None
    /\ gen = None
    /\ out = None
    /\ regex = None
    /\ lexer = None

\* One evaluation of the loop's condition: a pass of the loop while the
\* frontier holds a state, the return of the closure when it is empty.
EpsilonClosureStep ==
    /\ pc = "closure"
    /\ IF Len(eclosure.e.frontier) > 0
       THEN /\ eclosure' = [eclosure EXCEPT
                               !.e = epsilon_closure_step(nfa.transitions, @)]
            /\ pc' = pc
       ELSE /\ pc' = "closure done"
            /\ eclosure' = eclosure
    /\ UNCHANGED <<nfa, efree, state_ids, dfa, lhs, rhs, sink, lrVars, ioVars>>

\* A call that has begun runs on: the interpreter does not stop in the loop.
SpecClosure ==
    InitClosure /\ [][EpsilonClosureStep]_vars /\ WF_vars(EpsilonClosureStep)

(***************************************************************************)
(* The parser generator (src/parsergen.py).  The reserved symbols and the  *)
(* action kinds are those of module parser, whose values the generated     *)
(* table of src/regexpr.py shows: terminals are negative (END is -1, the   *)
(* first terminal allocated is -3), non-terminals count up from GOAL = 0.  *)
(***************************************************************************)
END == -1
NIL == -2
GOAL == 0
SHIFT == 0
REDUCE == 1
ACCEPT == 2
GOTO == 3

\* The grammar symbols of the docstring's example: S, C, c, d.
sym_S == 1
sym_C == 2
sym_c == -3
sym_d == -4
terminals == {sym_c, sym_d}
non_terminals == {GOAL, sym_S, sym_C}

\* The number of productions of a grammar besides the goal rule.
MaxRules == 3

Production(index, lhs_, rhs_) == [index |-> index, lhs |-> lhs_, rhs |-> rhs_]
Item(rule, cursor, lookahead) ==
    [rule |-> rule, cursor |-> cursor, lookahead |-> lookahead]

has_successor(item) == item.cursor < Len(item.rule.rhs)
get_successor(item) == Item(item.rule, item.cursor + 1, item.lookahead)
get_locus(item) == item.rule.rhs[item.cursor + 1]

\* The elements of a set in the order a for loop visits them: some fixed order.
RECURSIVE SeqOf(_)
SeqOf(set) ==
    IF set = {} THEN << >>
    ELSE LET x == CHOOSE x \in set : TRUE
         IN  <<x>> \o SeqOf(set \ {x})

(***************************************************************************)
(* ParserGenerator.compute_first_map.  A pass of the while loop visits the *)
(* rules in order, each insert seen by the rules after it; insert sets     *)
(* changed exactly when a pass alters first.                               *)
(***************************************************************************)
insert(first_, non_terminal, terminal) ==
    [first_ EXCEPT ![non_terminal] = @ \cup {terminal}]

\* first_of_rhs that never looks past the first symbol of a rule.
first_of_rhs_first_symbol(first_, non_terminal, rhs_, i) ==
    IF i > Len(rhs_) THEN insert(first_, non_terminal, NIL)
    ELSE IF rhs_[i] \in terminals THEN insert(first_, non_terminal, rhs_[i])
    ELSE [first_ EXCEPT ![non_terminal] = @ \cup (first_[rhs_[i]] \ {NIL})]

\* The loop over rule.rhs, from its i-th symbol on.
RECURSIVE first_of_rhs(_, _, _, _)
first_of_rhs(first_, non_terminal, rhs_, i) ==
    IF i > Len(rhs_) THEN insert(first_, non_terminal, NIL)
    ELSE LET symbol == rhs_[i]
         IN  IF symbol \in terminals
             THEN insert(first_, non_terminal, symbol)
             ELSE LET first1 == [first_ EXCEPT ![non_terminal] =
                                    @ \cup (first_[symbol] \ {NIL})]
                  IN  IF NIL \notin first_[symbol]
                      THEN first1
                      ELSE first_of_rhs(first1, non_terminal, rhs_, i + 1)

RECURSIVE first_pass(_, _, _)
first_pass(rules_, first_, k) ==
    IF k > Len(rules_) THEN first_
    ELSE first_pass(rules_,
                    first_of_rhs(first_, rules_[k].lhs, rules_[k].rhs, 1),
                    k + 1)

RECURSIVE first_loop(_, _, _)
first_loop(rules_, first_, passes) ==
    LET first1 == first_pass(rules_, first_, 1)
    IN  IF first1 = first_
        THEN [first |-> first1, passes |-> passes + 1]
        ELSE first_loop(rules_, first1, passes + 1)

compute_first_run(rules_) ==
    first_loop(rules_, [n \in non_terminals |-> {}], 0)

compute_first_map(rules_) == compute_first_run(rules_).first

(***************************************************************************)
(* ParserGenerator.closure: the kernel is a stack of items.                *)
(***************************************************************************)
\* follow_of that takes the lookahead of the item and nothing else.
follow_of_lookahead_only(first_, item, follow) == {item.lookahead}

\* follow_of that stops at the first symbol after the locus, nullable or not.
follow_of_first_symbol(first_, item, follow) ==
    IF ~has_successor(item) THEN follow \cup {item.lookahead}
    ELSE IF get_locus(item) \in terminals THEN follow \cup {get_locus(item)}
    ELSE follow \cup (first_[get_locus(item)] \ {NIL})

\* The while loop that computes follow, from item on; an item with no
\* successor ends it with empty still True, and the lookahead is added.
RECURSIVE follow_of(_, _, _)
follow_of(first_, item, follow) ==
    IF ~has_successor(item) THEN follow \cup {item.lookahead}
    ELSE LET symbol == get_locus(item)
         IN  IF symbol \in terminals THEN follow \cup {symbol}
             ELSE LET follow1 == follow \cup (first_[symbol] \ {NIL})
                  IN  IF NIL \notin first_[symbol]
                      THEN follow1
                      ELSE follow_of(first_, get_successor(item), follow1)

\* new_items that takes the first rule of non_terminal and no other.
new_items_first_rule(rules_, non_terminal, follow, k) ==
    LET found == { j \in k .. Len(rules_) : rules_[j].lhs = non_terminal }
        symbols == SetToSeq(follow)
    IN  IF found = {} THEN << >>
        ELSE [i \in 1 .. Len(symbols) |->
                 Item(rules_[CHOOSE j \in found : \A h \in found : j <= h],
                      0, symbols[i])]

\* The items appended to the kernel for non_terminal: rule by rule, and for
\* each rule one item per symbol of follow.
RECURSIVE new_items(_, _, _, _)
new_items(rules_, non_terminal, follow, k) ==
    IF k > Len(rules_) THEN << >>
    ELSE (IF rules_[k].lhs # non_terminal THEN << >>
          ELSE LET symbols == SetToSeq(follow)
               IN  [i \in 1 .. Len(symbols) |-> Item(rules_[k], 0, symbols[i])])
         \o new_items(rules_, non_terminal, follow, k + 1)

\* The items the loop body appends to the kernel after adding item to state.
closure_items(rules_, first_, item) ==
    IF ~has_successor(item) THEN << >>
    ELSE IF get_locus(item) \notin non_terminals THEN << >>
    ELSE new_items(rules_, get_locus(item),
                   follow_of(first_, get_successor(item), {}), 1)

RECURSIVE closure_loop(_, _, _, _)
closure_loop(rules_, first_, kernel, state) ==
    IF Len(kernel) = 0 THEN [state |-> state, kernel |-> kernel]
    ELSE IF Top(kernel) \in state
    THEN closure_loop(rules_, first_, Pop(kernel), state)
    ELSE closure_loop(rules_, first_,
                      Pop(kernel) \o closure_items(rules_, first_, Top(kernel)),
                      state \cup {Top(kernel)})

\* The frozenset returned, and the list passed as kernel as closure leaves it.
closure_run(rules_, first_, kernel) == closure_loop(rules_, first_, kernel, {})

closure(rules_, first_, kernel) == closure_run(rules_, first_, kernel).state

(***************************************************************************)
(* ParserGenerator.generate.  g is the loop's state: the table (a map from *)
(* (state, symbol) to a set of actions, and its keys in insertion order),  *)
(* the explored set and the frontier.                                      *)
(***************************************************************************)
\* table[key] on a defaultdict: the first access makes the entry.
table_entry(g, key) ==
    [g EXCEPT !.table = Put(@, key, {}), !.keys = Append(@, key)]

\* table_add that replaces the actions of the cell by the new one.
table_add_overwrite(g, key, action) == [g EXCEPT !.table[key] = {action}]

\* table[key].add(action)
table_add(g, key, action) == [g EXCEPT !.table[key] = @ \cup {action}]

\* reduce_action that carries the rule's left-hand side, not its index.
reduce_action_by_lhs(item) ==
    <<IF item.rule.lhs = GOAL THEN ACCEPT ELSE REDUCE, item.rule.lhs>>

\* The action of an item of state that has no successor.
reduce_action(item) ==
    <<IF item.rule.lhs = GOAL THEN ACCEPT ELSE REDUCE, item.rule.index>>

\* The else branch of the loop over the items of state.
RECURSIVE generate_reduces(_, _, _)
generate_reduces(g, state, items) ==
    IF Len(items) = 0 THEN g
    ELSE IF has_successor(Head(items))
    THEN generate_reduces(g, state, Tail(items))
    ELSE IF <<state, Head(items).lookahead>> \notin DOMAIN g.table
    THEN generate_reduces(table_entry(g, <<state, Head(items).lookahead>>),
                          state, items)
    ELSE generate_reduces(table_add(g, <<state, Head(items).lookahead>>,
                                    reduce_action(Head(items))),
                          state, Tail(items))

\* The kernel of transitions[symbol]: the successors of the items at symbol.
kernel_of(state, symbol) ==
    SeqOf({ get_successor(item) :
            item \in { i \in state : has_successor(i) /\ get_locus(i) = symbol } })

\* The body of the loop over transitions.items(), the entry being there.
generate_shift(rules_, first_, g, state, symbol) ==
    LET next_state == closure(rules_, first_, kernel_of(state, symbol))
    IN  table_add([g EXCEPT !.frontier = Append(@, next_state)],
                  <<state, symbol>>,
                  <<IF symbol \in terminals THEN SHIFT ELSE GOTO, next_state>>)

\* The loop over transitions.items().
RECURSIVE generate_shifts(_, _, _, _, _)
generate_shifts(rules_, first_, g, state, symbols) ==
    IF Len(symbols) = 0 THEN g
    ELSE IF <<state, Head(symbols)>> \notin DOMAIN g.table
    THEN generate_shifts(rules_, first_,
                         table_entry(g, <<state, Head(symbols)>>), state, symbols)
    ELSE generate_shifts(rules_, first_,
                         generate_shift(rules_, first_, g, state, Head(symbols)),
                         state, Tail(symbols))

\* The loop body for a state that is not explored.
generate_state(rules_, first_, g, state) ==
    generate_shifts(rules_, first_,
        generate_reduces([g EXCEPT !.explored = @ \cup {state}],
                         state, SeqOf(state)),
        state,
        SetToSeq({ get_locus(i) : i \in { j \in state : has_successor(j) } }))

RECURSIVE generate_loop(_, _, _)
generate_loop(rules_, first_, g) ==
    IF Len(g.frontier) = 0 THEN g
    ELSE IF Top(g.frontier) \in g.explored
    THEN generate_loop(rules_, first_, [g EXCEPT !.frontier = Pop(@)])
    ELSE generate_loop(rules_, first_,
             generate_state(rules_, first_, [g EXCEPT !.frontier = Pop(@)],
                            Top(g.frontier)))

initial_state_of(rules_, first_) ==
    closure(rules_, first_, <<Item(rules_[1], 0, END)>>)

generate_run(rules_, first_) ==
    generate_loop(rules_, first_,
        [table |-> << >>, keys |-> << >>, explored |-> {},
         frontier |-> <<initial_state_of(rules_, first_)>>])

(***************************************************************************)
(* ParserGenerator.simplify_table.  t is the loop's state: state_ids,      *)
(* next_state_id and new_table.                                            *)
(***************************************************************************)
\* get_id that does not advance next_state_id.
get_id_no_increment(t, state) ==
    [t EXCEPT !.state_ids = Put(@, state, t.next_state_id)]

\* get_id, when state has no ID yet.
get_id(t, state) ==
    [t EXCEPT !.state_ids = Put(@, state, t.next_state_id),
              !.next_state_id = @ + 1]

\* new_table[position].add(action)
new_table_add(t, position, action) ==
    [t EXCEPT !.new_table = Put(@, position, Get(@, position, {}) \cup {action})]

\* The loop over the actions of a cell; position is (get_id(state), symbol).
RECURSIVE simplify_actions(_, _, _)
simplify_actions(t, position, actions) ==
    IF Len(actions) = 0 THEN t
    ELSE IF Head(actions)[1] \in {REDUCE, ACCEPT}
    THEN simplify_actions(new_table_add(t, position, Head(actions)),
                          position, Tail(actions))
    ELSE IF Head(actions)[1] \notin {SHIFT, GOTO}
    THEN simplify_actions(t, position, Tail(actions))
    ELSE IF Head(actions)[2] \notin DOMAIN t.state_ids
    THEN simplify_actions(get_id(t, Head(actions)[2]), position, actions)
    ELSE simplify_actions(
             new_table_add(t, position,
                 <<Head(actions)[1], t.state_ids[Head(actions)[2]]>>),
             position, Tail(actions))

\* The loop over table.items().
RECURSIVE simplify_loop(_, _, _)
simplify_loop(table_, keys, t) ==
    IF Len(keys) = 0 THEN t
    ELSE IF Head(keys)[1] \notin DOMAIN t.state_ids
    THEN simplify_loop(table_, keys, get_id(t, Head(keys)[1]))
    ELSE simplify_loop(table_, Tail(keys),
             simplify_actions(t, <<t.state_ids[Head(keys)[1]], Head(keys)[2]>>,
                              SeqOf(table_[Head(keys)])))

simplify_run(table_, keys, initial_state) ==
    simplify_loop(table_, keys,
        [state_ids |-> Put(<< >>, initial_state, 0),
         next_state_id |-> 1,
         new_table |-> << >>])

simplify_table(table_, keys, initial_state) ==
    simplify_run(table_, keys, initial_state).new_table

generate(rules_, first_) ==
    LET g == generate_run(rules_, first_)
    IN  simplify_table(g.table, g.keys, initial_state_of(rules_, first_))

(***************************************************************************)
(* The grammars: the goal rule GOAL -> S, then up to MaxRules productions  *)
(* of the pool, in the pool's order.  The pool holds the productions of    *)
(* the docstring's example (S -> C C, C -> c C, C -> d), empty, left-      *)
(* recursive and ambiguous ones, and one with GOAL on its right-hand side. *)
(***************************************************************************)
RulePool ==
    << <<sym_S, <<sym_C, sym_C>>>>,
       <<sym_S, <<sym_S, sym_c>>>>,
       <<sym_S, << >>>>,
       <<sym_S, <<sym_C>>>>,
       <<sym_S, <<sym_S, sym_S>>>>,
       <<sym_S, <<sym_d>>>>,
       <<sym_C, <<sym_c, sym_C>>>>,
       <<sym_C, <<sym_d>>>>,
       <<sym_C, << >>>>,
       <<sym_C, <<sym_S, sym_d>>>>,
       <<sym_C, <<sym_C, sym_c>>>>,
       <<sym_C, <<GOAL>>>> >>

InitLR ==
    /\ pc = "rules"
    /\ rules = <<Production(0, GOAL, <<sym_S>>)>>
    /\ first = None
    /\ table = None
    /\ gen = [last |-> 0]
    /\ nfa = None
    /\ efree = None
    /\ state_ids = None
    /\ dfa = None
    /\ lhs = None
    /\ rhs = None
    /\ sink = None
    /\ eclosure = None
    /\ out = None
    /\ regex = None
    /\ lexer = None

\* __init__'s loop: self.rules.append(Production(i, lhs, tuple(rhs))).
AddRule ==
    /\ pc = "rules"
    /\ Len(rules) <= MaxRules
    /\ \E k \in (gen.last + 1) .. Len(RulePool) :
           /\ rules' = Append(rules, Production(Len(rules), RulePool[k][1],
                                                RulePool[k][2]))
           /\ gen' = [last |-> k]
    /\ UNCHANGED <<pc, first, table, fsaVars, ioVars>>

\* The end of __init__: self.first and self.table.
Generate ==
    /\ pc = "rules"
    /\ first' = compute_first_map(rules)
    /\ table' = generate(rules, first')
    /\ gen' = LET g == generate_run(rules, first')
              IN  [table |-> g.table,
                   keys |-> g.keys,
                   explored |-> g.explored,
                   initial_state |-> initial_state_of(rules, first'),
                   state_ids |-> simplify_run(g.table, g.keys,
                                     initial_state_of(rules, first')).state_ids,
                   passes |-> compute_first_run(rules).passes]
    /\ pc' = "generated"
    /\ UNCHANGED <<rules, fsaVars, ioVars>>

(***************************************************************************)
(* ParserGenerator.print_table.  p is the loop's state: self.table, the    *)
(* lines printed, conflicts, num_entries and the exception raised, if any. *)
(* A line is the position and the action it shows.                         *)
(***************************************************************************)
\* The lines of a cell of more than one action: one per action.
conflict_lines(position, actions) ==
    LET listed == SeqOf(actions)
    IN  [i \in 1 .. Len(listed) |->
            [conflict |-> TRUE, position |-> position, action |-> listed[i]]]

\* The else branch: actions.pop() takes the action out of the cell's set.
entry_line(p, position) ==
    LET action == CHOOSE a \in p.table[position] : TRUE
    IN  [p EXCEPT !.table[position] = @ \ {action},
                  !.lines = Append(@, [conflict |-> FALSE, position |-> position,
                                       action |-> action]),
                  !.num_entries = @ + 1]

\* The loop over self.table.items(); pop on an empty set raises KeyError.
RECURSIVE print_table_loop(_, _)
print_table_loop(p, positions) ==
    IF p.error # "" \/ Len(positions) = 0 THEN p
    ELSE IF Cardinality(p.table[Head(positions)]) > 1
    THEN print_table_loop(
             [p EXCEPT !.conflicts = TRUE,
                       !.lines = @ \o conflict_lines(Head(positions),
                                                     p.table[Head(positions)]),
                       !.num_entries = @ + Cardinality(p.table[Head(positions)])],
             Tail(positions))
    ELSE IF p.table[Head(positions)] = {}
    THEN print_table_loop([p EXCEPT !.error = "KeyError"], Tail(positions))
    ELSE print_table_loop(entry_line(p, Head(positions)), Tail(positions))

print_table(table_) ==
    print_table_loop([table |-> table_, lines |-> << >>, conflicts |-> FALSE,
                      num_entries |-> 0, error |-> ""],
                     SeqOf(DOMAIN table_))

\* What a call printed or raised, without self.table.
printed(p) ==
    [lines |-> p.lines, conflicts |-> p.conflicts,
     num_entries |-> p.num_entries, error |-> p.error]

\* generator.print_table(), a first and a second time.
PrintTable ==
    /\ pc \in {"generated", "printed"}
    /\ out' = printed(print_table(table))
    /\ table' = print_table(table).table
    /\ pc' = IF pc = "generated" THEN "printed" ELSE "printed again"
    /\ UNCHANGED <<rules, first, gen, lexer, regex, fsaVars>>

(***************************************************************************)
(* The LR driver of module parser (not in src/): the standard shift/reduce *)
(* loop over a table of one action per cell.  It starts in state 0, reads  *)
(* the tokens followed by END, and a missing cell is an error.  REDUCE by  *)
(* rule k pops |rhs| states and pushes the GOTO of the state below on lhs, *)
(* both taken from the reduction buffer (self.callbacks).                  *)
(***************************************************************************)
\* The steps a run may take before it is taken not to end.
MaxSteps == 12 * (MaxTokens + 2)

\* The action of a cell of one action.
action_of(table_, position) == CHOOSE action \in table_[position] : TRUE

\* The stack after REDUCE by rule: |rhs| states popped.
reduced(stack, rule) == SubSeq(stack, 1, Len(stack) - Len(rule.rhs))

RECURSIVE parse_loop(_, _, _, _, _)
parse_loop(table_, rules_, stack, tokens, steps) ==
    IF steps = 0 THEN "no end"
    ELSE IF <<Top(stack), Head(tokens)>> \notin DOMAIN table_ THEN "error"
    ELSE IF action_of(table_, <<Top(stack), Head(tokens)>>)[1] = SHIFT
    THEN parse_loop(table_, rules_,
             Append(stack, action_of(table_, <<Top(stack), Head(tokens)>>)[2]),
             Tail(tokens), steps - 1)
    ELSE IF action_of(table_, <<Top(stack), Head(tokens)>>)[1] = ACCEPT
    THEN "accept"
    ELSE IF action_of(table_, <<Top(stack), Head(tokens)>>)[1] # REDUCE
    THEN "error"
    ELSE LET rule == rules_[action_of(table_, <<Top(stack), Head(tokens)>>)[2] + 1]
             goto == <<Top(reduced(stack, rule)), rule.lhs>>
         IN  IF goto \notin DOMAIN table_ THEN "error"
             ELSE parse_loop(table_, rules_,
                      Append(reduced(stack, rule), action_of(table_, goto)[2]),
                      tokens, steps - 1)

parse(table_, rules_, tokens) ==
    parse_loop(table_, rules_, <<0>>, Append(tokens, END), MaxSteps)

NextLR == AddRule \/ Generate \/ PrintTable

SpecLR == InitLR /\ [][NextLR]_vars

(***************************************************************************)
(* The hand-written regex Lexer (src/regexpr.py).  A source is a sequence  *)
(* of bytes (the ord of its characters); a token is (terminal, codepoint). *)
(* The terminals are those of TERMINALS.add() in allocation order.         *)
(***************************************************************************)
BAR == -3
ASTERISK == -4
PLUS == -5
QUESTION == -6
CHAR == -7
LPAREN == -8
RPAREN == -9
LSQUARE == -10
RSQUARE == -11
CARET == -12
HYPHEN == -13

\* ord of | * + ? ( ) [ ] ^ -
SPECIAL_CHARS ==
    (124 :> BAR) @@ (42 :> ASTERISK) @@ (43 :> PLUS) @@ (63 :> QUESTION) @@
    (40 :> LPAREN) @@ (41 :> RPAREN) @@ (91 :> LSQUARE) @@ (93 :> RSQUARE) @@
    (94 :> CARET) @@ (45 :> HYPHEN)

\* ord of 0-9, a-f, A-F
HEXADECIMAL_CHARS == (48 .. 57) \cup (97 .. 102) \cup (65 .. 70)

\* int('0x' + digits, base=16), digit by digit.
hex_digit(c) ==
    IF c \in 48 .. 57 THEN c - 48 ELSE IF c \in 97 .. 102 THEN c - 87 ELSE c - 55

RECURSIVE hex_int(_, _)
hex_int(digits, value) ==
    IF Len(digits) = 0 THEN value
    ELSE hex_int(Tail(digits), 16 * value + hex_digit(Head(digits)))

\* c.startswith(prefix)
startswith(c, prefix) ==
    Len(c) >= Len(prefix) /\ SubSeq(c, 1, Len(prefix)) = prefix

\* get_codepoint that takes \n and \t for the bytes n and t.
get_codepoint_literal(c) ==
    IF startswith(c, <<92, 120>>) THEN hex_int(SubSeq(c, 3, Len(c)), 0)
    ELSE IF startswith(c, <<92>>) THEN c[2]
    ELSE c[1]

\* ord of \ n t x are 92 110 116 120.
get_codepoint(c) ==
    IF c = <<92, 110>> THEN 10
    ELSE IF c = <<92, 116>> THEN 9
    ELSE IF startswith(c, <<92, 120>>) THEN hex_int(SubSeq(c, 3, Len(c)), 0)
    ELSE IF startswith(c, <<92>>) THEN c[2]
    ELSE c[1]

\* What a state function does on c: it returns a state function or None
\* (the token ends), or raises LexerError.
lexer_state(state, c) ==
    IF state = "state0" THEN (IF c = 92 THEN "state1" ELSE "None")
    ELSE IF state = "state1" THEN (IF c = 120 THEN "state2" ELSE "None")
    ELSE IF state = "state2"
    THEN (IF c \in HEXADECIMAL_CHARS THEN "state3" ELSE "LexerError")
    ELSE (IF c \in HEXADECIMAL_CHARS THEN "None" ELSE "LexerError")

\* while state is not None: state = state(self.consume()).  consume reads
\* source[position], an IndexError past the end, and then advances position.
RECURSIVE lex_loop(_, _)
lex_loop(self, state) ==
    IF state = "None" THEN self
    ELSE IF state = "LexerError" THEN [self EXCEPT !.error = "LexerError"]
    ELSE IF self.position >= Len(self.source)
    THEN [self EXCEPT !.error = "IndexError"]
    ELSE lex_loop([self EXCEPT !.position = @ + 1],
                  lexer_state(state, self.source[self.position + 1]))

\* Lexer.lex: the Lexer after the call, with what the call returned or raised.
regex_lex(self) ==
    IF self.position >= Len(self.source)
    THEN [self EXCEPT !.prev_position = self.position, !.token = <<END, None>>]
    ELSE LET after == lex_loop([self EXCEPT !.prev_position = self.position], "state0")
             value == SubSeq(after.source, after.prev_position + 1, after.position)
         IN  IF after.error # "" THEN after
             ELSE [after EXCEPT !.token =
                      <<IF Len(value) = 1 /\ value[1] \in DOMAIN SPECIAL_CHARS
                        THEN SPECIAL_CHARS[value[1]] ELSE CHAR,
                        get_codepoint(value)>>]

\* The bytes a source is made of: \ x n t 0 F | g
SourceChars == {92, 120, 110, 116, 48, 70, 124, 103}

InitRegexLexer ==
    /\ pc = "source"
    /\ lexer = [source |-> << >>, position |-> 0, prev_position |-> 0,
                token |-> << >>, error |-> ""]
    /\ out = None
    /\ regex = None
    /\ nfa = None
    /\ efree = None
    /\ state_ids = None
    /\ dfa = None
    /\ lhs = None
    /\ rhs = None
    /\ sink = None
    /\ eclosure = None
    /\ rules = None
    /\ first = None
    /\ table = None
    /\ gen = None

\* Lexer(source): the source, byte by byte.
SourceAppend ==
    /\ pc = "source"
    /\ Len(lexer.source) < MaxSource
    /\ \E c \in SourceChars : lexer' = [lexer EXCEPT !.source = Append(@, c)]
    /\ UNCHANGED <<pc, out, regex, fsaVars, lrVars>>

\* lexer.lex(), until it returns END or raises.
RegexLex ==
    /\ pc \in {"source", "lexing"}
    /\ lexer.error = ""
    /\ IF lexer.token = << >> THEN TRUE ELSE lexer.token[1] # END
    /\ lexer' = regex_lex(lexer)
    /\ pc' = "lexing"
    /\ UNCHANGED <<out, regex, fsaVars, lrVars>>

NextRegexLexer == SourceAppend \/ RegexLex

SpecRegexLexer == InitRegexLexer /\ [][NextRegexLexer]_vars

(***************************************************************************)
(* The regex compiler (src/regexpr.py): the generated TABLE and            *)
(* REDUCTIONS, the reduction callbacks, and the parser that get_parser     *)
(* builds from them.                                                       *)
(***************************************************************************)
\* The cells of TABLE, (state, symbol): (action, data), as (state, symbol,
\* action, data).
TABLE_cells == {
    <<0, 4, 3, 1>>, <<0, 3, 3, 2>>, <<0, 1, 3, 3>>, <<0, -8, 0, 4>>,
    <<0, -7, 0, 5>>, <<0, -10, 0, 6>>, <<0, 2, 3, 7>>, <<7, -1, 1, 2>>,
    <<7, -3, 1, 2>>, <<7, 4, 3, 1>>, <<7, -8, 0, 4>>, <<7, -7, 0, 5>>,
    <<7, 3, 3, 8>>, <<7, -10, 0, 6>>, <<6, 7, 3, 9>>, <<6, 5, 3, 10>>,
    <<6, -7, 0, 11>>, <<6, 6, 3, 12>>, <<12, -11, 1, 13>>, <<12, -7, 0, 11>>,
    <<12, 7, 3, 13>>, <<12, -12, 0, 14>>, <<14, 7, 3, 15>>, <<14, -7, 0, 16>>,
    <<14, 6, 3, 17>>, <<17, -11, 1, 12>>, <<17, -7, 0, 16>>, <<17, 7, 3, 18>>,
    <<18, -7, 1, 14>>, <<18, -11, 1, 14>>, <<16, -11, 1, 17>>, <<16, -7, 1, 17>>,
    <<16, -13, 0, 19>>, <<19, -7, 0, 20>>, <<20, -11, 1, 16>>, <<20, -7, 1, 16>>,
    <<15, -7, 1, 15>>, <<15, -11, 1, 15>>, <<13, -7, 1, 14>>, <<13, -12, 1, 14>>,
    <<13, -11, 1, 14>>, <<11, -12, 1, 17>>, <<11, -7, 1, 17>>, <<11, -11, 1, 17>>,
    <<11, -13, 0, 21>>, <<21, -7, 0, 22>>, <<22, -11, 1, 16>>, <<22, -7, 1, 16>>,
    <<22, -12, 1, 16>>, <<10, -11, 0, 23>>, <<23, -7, 1, 11>>, <<23, -4, 1, 11>>,
    <<23, -8, 1, 11>>, <<23, -5, 1, 11>>, <<23, -1, 1, 11>>, <<23, -6, 1, 11>>,
    <<23, -3, 1, 11>>, <<23, -10, 1, 11>>, <<9, -7, 1, 15>>, <<9, -12, 1, 15>>,
    <<9, -11, 1, 15>>, <<8, -7, 1, 3>>, <<8, -3, 1, 3>>, <<8, -8, 1, 3>>,
    <<8, -10, 1, 3>>, <<8, -1, 1, 3>>, <<5, -8, 1, 9>>, <<5, -1, 1, 9>>,
    <<5, -6, 1, 9>>, <<5, -3, 1, 9>>, <<5, -7, 1, 9>>, <<5, -10, 1, 9>>,
    <<5, -4, 1, 9>>, <<5, -5, 1, 9>>, <<4, 3, 3, 24>>, <<4, -8, 0, 25>>,
    <<4, 1, 3, 26>>, <<4, 4, 3, 27>>, <<4, -7, 0, 28>>, <<4, -10, 0, 29>>,
    <<4, 2, 3, 30>>, <<30, -9, 1, 2>>, <<30, -3, 1, 2>>, <<30, 4, 3, 27>>,
    <<30, -8, 0, 25>>, <<30, 3, 3, 31>>, <<30, -7, 0, 28>>, <<30, -10, 0, 29>>,
    <<29, 7, 3, 9>>, <<29, 5, 3, 32>>, <<29, -7, 0, 11>>, <<29, 6, 3, 12>>,
    <<32, -11, 0, 33>>, <<33, -7, 1, 11>>, <<33, -4, 1, 11>>, <<33, -8, 1, 11>>,
    <<33, -5, 1, 11>>, <<33, -6, 1, 11>>, <<33, -9, 1, 11>>, <<33, -3, 1, 11>>,
    <<33, -10, 1, 11>>, <<28, -8, 1, 9>>, <<28, -9, 1, 9>>, <<28, -6, 1, 9>>,
    <<28, -3, 1, 9>>, <<28, -7, 1, 9>>, <<28, -10, 1, 9>>, <<28, -4, 1, 9>>,
    <<28, -5, 1, 9>>, <<31, -7, 1, 3>>, <<31, -9, 1, 3>>, <<31, -3, 1, 3>>,
    <<31, -8, 1, 3>>, <<31, -10, 1, 3>>, <<25, 3, 3, 24>>, <<25, -8, 0, 25>>,
    <<25, 1, 3, 34>>, <<25, 4, 3, 27>>, <<25, -7, 0, 28>>, <<25, -10, 0, 29>>,
    <<25, 2, 3, 30>>, <<27, -8, 1, 5>>, <<27, -7, 1, 5>>, <<27, -10, 1, 5>>,
    <<27, -9, 1, 5>>, <<27, -3, 1, 5>>, <<27, -4, 0, 35>>, <<27, -6, 0, 36>>,
    <<27, -5, 0, 37>>, <<37, -9, 1, 7>>, <<37, -7, 1, 7>>, <<37, -3, 1, 7>>,
    <<37, -8, 1, 7>>, <<37, -10, 1, 7>>, <<36, -3, 1, 8>>, <<36, -8, 1, 8>>,
    <<36, -10, 1, 8>>, <<36, -9, 1, 8>>, <<36, -7, 1, 8>>, <<35, -3, 1, 6>>,
    <<35, -8, 1, 6>>, <<35, -7, 1, 6>>, <<35, -10, 1, 6>>, <<35, -9, 1, 6>>,
    <<34, -3, 0, 38>>, <<34, -9, 0, 39>>, <<39, -6, 1, 10>>, <<39, -9, 1, 10>>,
    <<39, -3, 1, 10>>, <<39, -10, 1, 10>>, <<39, -4, 1, 10>>, <<39, -7, 1, 10>>,
    <<39, -8, 1, 10>>, <<39, -5, 1, 10>>, <<38, 4, 3, 27>>, <<38, 3, 3, 24>>,
    <<38, -8, 0, 25>>, <<38, -7, 0, 28>>, <<38, -10, 0, 29>>, <<38, 2, 3, 40>>,
    <<40, -3, 1, 1>>, <<40, -9, 1, 1>>, <<40, 4, 3, 27>>, <<40, -8, 0, 25>>,
    <<40, -7, 0, 28>>, <<40, 3, 3, 31>>, <<40, -10, 0, 29>>, <<24, -9, 1, 4>>,
    <<24, -3, 1, 4>>, <<24, -8, 1, 4>>, <<24, -10, 1, 4>>, <<24, -7, 1, 4>>,
    <<26, -3, 0, 38>>, <<26, -9, 0, 41>>, <<41, -1, 1, 10>>, <<41, -6, 1, 10>>,
    <<41, -3, 1, 10>>, <<41, -10, 1, 10>>, <<41, -4, 1, 10>>, <<41, -7, 1, 10>>,
    <<41, -8, 1, 10>>, <<41, -5, 1, 10>>, <<1, -8, 1, 5>>, <<1, -1, 1, 5>>,
    <<1, -7, 1, 5>>, <<1, -10, 1, 5>>, <<1, -3, 1, 5>>, <<1, -4, 0, 42>>,
    <<1, -6, 0, 43>>, <<1, -5, 0, 44>>, <<44, -7, 1, 7>>, <<44, -3, 1, 7>>,
    <<44, -8, 1, 7>>, <<44, -1, 1, 7>>, <<44, -10, 1, 7>>, <<43, -3, 1, 8>>,
    <<43, -8, 1, 8>>, <<43, -10, 1, 8>>, <<43, -1, 1, 8>>, <<43, -7, 1, 8>>,
    <<42, -3, 1, 6>>, <<42, -8, 1, 6>>, <<42, -1, 1, 6>>, <<42, -7, 1, 6>>,
    <<42, -10, 1, 6>>, <<3, -1, 2, 0>>, <<3, -3, 0, 45>>, <<45, 4, 3, 1>>,
    <<45, 3, 3, 2>>, <<45, -8, 0, 4>>, <<45, -7, 0, 5>>, <<45, -10, 0, 6>>,
    <<45, 2, 3, 46>>, <<46, -1, 1, 1>>, <<46, -3, 1, 1>>, <<46, 4, 3, 1>>,
    <<46, -8, 0, 4>>, <<46, 3, 3, 8>>, <<46, -7, 0, 5>>, <<46, -10, 0, 6>>,
    <<2, -3, 1, 4>>, <<2, -8, 1, 4>>, <<2, -10, 1, 4>>, <<2, -1, 1, 4>>,
    <<2, -7, 1, 4>>
}

TABLE ==
    [position \in { <<cell[1], cell[2]>> : cell \in TABLE_cells } |->
        LET cell == CHOOSE c \in TABLE_cells : <<c[1], c[2]>> = position
        IN  <<cell[3], cell[4]>>]

\* REDUCTIONS: (lhs, len(rhs)) of accept, r1, .., r17.
REDUCTIONS ==
    << <<0, 1>>, <<1, 3>>, <<1, 1>>, <<2, 2>>, <<2, 1>>, <<3, 1>>, <<3, 2>>,
       <<3, 2>>, <<3, 2>>, <<4, 1>>, <<4, 3>>, <<4, 3>>, <<5, 3>>, <<5, 1>>,
       <<6, 2>>, <<6, 1>>, <<7, 3>>, <<7, 1>> >>

\* A callback's result: the value it returns, and the NFA of the context
\* after it.  q0 and q1 are the states two calls of add_state return.
returns(value, nfa_) == [value |-> value, nfa |-> nfa_]
fresh_q0(nfa_) == nfa_.next_state + 1
fresh_q1(nfa_) == nfa_.next_state + 2
add_states(nfa_) == NFA_add_state(NFA_add_state(nfa_))

\* Disjunction -> Disjunction '|' Concatenation
r1(terms, nfa_) ==
    returns(<<fresh_q0(nfa_), fresh_q1(nfa_)>>,
        add_transition(
            add_transition(
                add_transition(
                    add_transition(add_states(nfa_),
                                   fresh_q0(nfa_), terms[1][1], EPSILON),
                    fresh_q0(nfa_), terms[3][1], EPSILON),
                terms[1][2], fresh_q1(nfa_), EPSILON),
            terms[3][2], fresh_q1(nfa_), EPSILON))

\* Concatenation -> Concatenation Quantifier
r3(terms, nfa_) ==
    returns(<<terms[1][1], terms[2][2]>>,
            add_transition(nfa_, terms[1][2], terms[2][1], EPSILON))

\* Quantifier -> Factor '*'
r6(terms, nfa_) ==
    returns(<<fresh_q0(nfa_), fresh_q1(nfa_)>>,
        add_transition(
            add_transition(
                add_transition(
                    add_transition(add_states(nfa_),
                                   fresh_q0(nfa_), fresh_q1(nfa_), EPSILON),
                    terms[1][2], terms[1][1], EPSILON),
                fresh_q0(nfa_), terms[1][1], EPSILON),
            terms[1][2], fresh_q1(nfa_), EPSILON))

\* r7 with the edge from q0 to q1 that r6 and r8 add.
r7_skippable(terms, nfa_) ==
    returns(<<fresh_q0(nfa_), fresh_q1(nfa_)>>,
        add_transition(
            add_transition(
                add_transition(
                    add_transition(add_states(nfa_),
                                   fresh_q0(nfa_), terms[1][1], EPSILON),
                    terms[1][2], fresh_q1(nfa_), EPSILON),
                terms[1][2], terms[1][1], EPSILON),
            fresh_q0(nfa_), fresh_q1(nfa_), EPSILON))

\* Quantifier -> Factor '+'
r7(terms, nfa_) ==
    returns(<<fresh_q0(nfa_), fresh_q1(nfa_)>>,
        add_transition(
            add_transition(
                add_transition(add_states(nfa_),
                               fresh_q0(nfa_), terms[1][1], EPSILON),
                terms[1][2], fresh_q1(nfa_), EPSILON),
            terms[1][2], terms[1][1], EPSILON))

\* Quantifier -> Factor '?'
r8(terms, nfa_) ==
    returns(<<fresh_q0(nfa_), fresh_q1(nfa_)>>,
        add_transition(
            add_transition(
                add_transition(add_states(nfa_),
                               fresh_q0(nfa_), terms[1][1], EPSILON),
                terms[1][2], fresh_q1(nfa_), EPSILON),
            fresh_q0(nfa_), fresh_q1(nfa_), EPSILON))

\* Factor -> '[' Class ']': for c in terms[1]: add_transition(q0, q1, c)
RECURSIVE r11_loop(_, _, _, _)
r11_loop(nfa_, q0, q1, chars) ==
    IF Len(chars) = 0 THEN nfa_
    ELSE r11_loop(add_transition(nfa_, q0, q1, Head(chars)), q0, q1, Tail(chars))

r11(terms, nfa_) ==
    returns(<<fresh_q0(nfa_), fresh_q1(nfa_)>>,
            r11_loop(add_states(nfa_), fresh_q0(nfa_), fresh_q1(nfa_),
                     SetToSeq(terms[2])))

\* The callback of production index: r2, r4, r5, r13, r15 return terms[0],
\* r10 returns terms[1], r9 is the one-character fragment, r12 the
\* difference, r14 the update, r16 range(terms[0], 1 + terms[2]) and r17
\* the set of terms[0].
callback(index, terms, nfa_) ==
    IF index = 1 THEN r1(terms, nfa_)
    ELSE IF index = 3 THEN r3(terms, nfa_)
    ELSE IF index = 6 THEN r6(terms, nfa_)
    ELSE IF index = 7 THEN r7(terms, nfa_)
    ELSE IF index = 8 THEN r8(terms, nfa_)
    ELSE IF index = 9
    THEN returns(<<fresh_q0(nfa_), fresh_q1(nfa_)>>, r9(nfa_, terms[1]))
    ELSE IF index = 10 THEN returns(terms[2], nfa_)
    ELSE IF index = 11 THEN r11(terms, nfa_)
    ELSE IF index = 12 THEN returns(terms[1] \ terms[3], nfa_)
    ELSE IF index = 14 THEN returns(terms[1] \cup terms[2], nfa_)
    ELSE IF index = 16 THEN returns(terms[1] .. terms[3], nfa_)
    ELSE IF index = 17 THEN returns({terms[1]}, nfa_)
    ELSE returns(terms[1], nfa_)

(***************************************************************************)
(* Parser.parse of module parser (not in src/): the shift/reduce loop over *)
(* TABLE, with a stack of (state, value).  It starts in state 0 with the   *)
(* context (NFA(), output); SHIFT pushes the token's value and reads the   *)
(* next token from the Lexer; REDUCE calls the production's callback on    *)
(* the values of its right-hand side and pushes what it returns under the  *)
(* GOTO; ACCEPT hands the value of the root to accept.  A missing cell is  *)
(* a ParserError, and what the Lexer raises passes through.                *)
(***************************************************************************)
terms_of(stack, n) == [i \in 1 .. n |-> stack[Len(stack) - n + i][2]]

RECURSIVE regex_parse_loop(_)
regex_parse_loop(p) ==
    IF p.lexer.error # "" THEN [p EXCEPT !.error = p.lexer.error]
    ELSE IF <<Top(p.stack)[1], p.lexer.token[1]>> \notin DOMAIN TABLE
    THEN [p EXCEPT !.error = "ParserError"]
    ELSE IF TABLE[<<Top(p.stack)[1], p.lexer.token[1]>>][1] = SHIFT
    THEN regex_parse_loop(
             [p EXCEPT !.stack = Append(@, <<TABLE[<<Top(p.stack)[1],
                                                    p.lexer.token[1]>>][2],
                                             p.lexer.token[2]>>),
                       !.lexer = regex_lex(@)])
    ELSE IF TABLE[<<Top(p.stack)[1], p.lexer.token[1]>>][1] = ACCEPT
    THEN [p EXCEPT !.value = Top(p.stack)[2]]
    ELSE LET index == TABLE[<<Top(p.stack)[1], p.lexer.token[1]>>][2]
             n == REDUCTIONS[index + 1][2]
             below == SubSeq(p.stack, 1, Len(p.stack) - n)
             goto == <<Top(below)[1], REDUCTIONS[index + 1][1]>>
             r == callback(index, terms_of(p.stack, n), p.nfa)
         IN  IF goto \notin DOMAIN TABLE THEN [p EXCEPT !.error = "ParserError"]
             ELSE regex_parse_loop(
                      [p EXCEPT !.stack = Append(below, <<TABLE[goto][2], r.value>>),
                                !.nfa = r.nfa])

\* The parse of source up to ACCEPT: the root's (q0, q1) and the NFA built.
regex_parse(source) ==
    regex_parse_loop(
        [stack |-> << <<0, None>> >>,
         lexer |-> regex_lex([source |-> source, position |-> 0,
                              prev_position |-> 0, token |-> << >>,
                              error |-> ""]),
         nfa |-> NFA_init, value |-> << >>, error |-> ""])

(***************************************************************************)
(* The regular expressions given to the compiler.  An expression is kept   *)
(* as its syntax tree, and the compiler is given its text: a byte is       *)
(* written raw or as \x0H, a class as [items] or [items^items] with an     *)
(* item a byte or a range lo-hi, and a subexpression is parenthesised      *)
(* where the grammar requires it.                                          *)
(***************************************************************************)
Char(c, form) == [op |-> "char", c |-> c, form |-> form]
Class(pos, neg) == [op |-> "class", pos |-> pos, neg |-> neg]
Quantified(q, e) == [op |-> q, e |-> e]
Binary(op, l, r) == [op |-> op, l |-> l, r |-> r]

Items == { <<c>> : c \in Chars } \cup
         { range \in Chars \X Chars : range[1] < range[2] }
Atoms == { Char(c, form) : c \in Chars, form \in {"raw", "hex"} } \cup
         { Class(<<item>>, << >>) : item \in Items }

\* \x0H
hex_source(c) == <<92, 120, 48, IF c < 10 THEN 48 + c ELSE 55 + c>>

item_source(item) ==
    IF Len(item) = 1 THEN hex_source(item[1])
    ELSE hex_source(item[1]) \o <<45>> \o hex_source(item[2])

RECURSIVE items_source(_)
items_source(items) ==
    IF Len(items) = 0 THEN << >>
    ELSE item_source(Head(items)) \o items_source(Tail(items))

RECURSIVE regex_source(_)
regex_source(e) ==
    IF e.op = "char" THEN (IF e.form = "raw" THEN <<e.c>> ELSE hex_source(e.c))
    ELSE IF e.op = "class"
    THEN <<91>> \o items_source(e.pos) \o
         (IF Len(e.neg) = 0 THEN << >> ELSE <<94>> \o items_source(e.neg)) \o <<93>>
    ELSE IF e.op \in {"*", "+", "?"}
    THEN (IF e.e.op \in {"char", "class"} THEN regex_source(e.e)
          ELSE <<40>> \o regex_source(e.e) \o <<41>>) \o
         <<IF e.op = "*" THEN 42 ELSE IF e.op = "+" THEN 43 ELSE 63>>
    ELSE IF e.op = "concat"
    THEN (IF e.l.op = "|" THEN <<40>> \o regex_source(e.l) \o <<41>>
          ELSE regex_source(e.l)) \o
         (IF e.r.op \in {"|", "concat"} THEN <<40>> \o regex_source(e.r) \o <<41>>
          ELSE regex_source(e.r))
    ELSE regex_source(e.l) \o <<124>> \o regex_source(e.r)

\* The operators and extra class items of an expression.
RECURSIVE regex_size(_)
regex_size(e) ==
    IF e.op = "char" THEN 0
    ELSE IF e.op = "class" THEN Len(e.pos) + Len(e.neg) - 1
    ELSE IF e.op \in {"*", "+", "?"} THEN 1 + regex_size(e.e)
    ELSE 1 + regex_size(e.l) + regex_size(e.r)

InitRegex ==
    /\ pc = "regex"
    /\ regex \in Atoms
    /\ out = None
    /\ lexer = None
    /\ nfa = None
    /\ efree = None
    /\ state_ids = None
    /\ dfa = None
    /\ lhs = None
    /\ rhs = None
    /\ sink = None
    /\ eclosure = None
    /\ rules = None
    /\ first = None
    /\ table = None
    /\ gen = None

\* One more item in the class, before or after the ^.
ClassAdd ==
    /\ pc = "regex"
    /\ regex.op = "class"
    /\ regex_size(regex) < MaxRegexSize
    /\ \E item \in Items, negative \in BOOLEAN :
           /\ negative \/ Len(regex.neg) = 0
           /\ regex' = IF negative
                       THEN Class(regex.pos, Append(regex.neg, item))
                       ELSE Class(Append(regex.pos, item), regex.neg)
    /\ UNCHANGED <<pc, out, lexer, fsaVars, lrVars>>

Quantify ==
    /\ pc = "regex"
    /\ regex_size(regex) < MaxRegexSize
    /\ \E q \in {"*", "+", "?"} : regex' = Quantified(q, regex)
    /\ UNCHANGED <<pc, out, lexer, fsaVars, lrVars>>

Concatenate ==
    /\ pc = "regex"
    /\ regex_size(regex) < MaxRegexSize
    /\ \E c \in Chars : regex' = Binary("concat", regex, Char(c, "raw"))
    /\ UNCHANGED <<pc, out, lexer, fsaVars, lrVars>>

Alternate ==
    /\ pc = "regex"
    /\ regex_size(regex) < MaxRegexSize
    /\ \E c \in Chars : regex' = Binary("|", regex, Char(c, "raw"))
    /\ UNCHANGED <<pc, out, lexer, fsaVars, lrVars>>

\* The accepting member of each closure that remove_epsilons visits last:
\* accept leaves one accepting state, so it is that state.
accept_last(self) ==
    [s \in NFA_states(self) |->
        IF epsilon_closure(self, s) \cap DOMAIN self.outputs = {} THEN -1
        ELSE CHOOSE q1 \in DOMAIN self.outputs : TRUE]

\* get_parser().parse(source, output): the parse, and accept on its root.
Compile ==
    /\ pc = "regex"
    /\ \E output \in Tags :
           LET p == regex_parse(regex_source(regex))
           IN  /\ lexer' = p.lexer
               /\ out' = [error |-> p.error, output |-> output]
               /\ IF p.error # ""
                  THEN nfa' = p.nfa /\ efree' = None /\ dfa' = None
                  ELSE /\ nfa' = accept_nfa(p.nfa, p.value[1], p.value[2], output)
                       /\ efree' = remove_epsilons(nfa', accept_last(nfa'))
                       /\ dfa' = get_dfa(efree')
    /\ pc' = "compiled"
    /\ UNCHANGED <<regex, state_ids, lhs, rhs, sink, lrVars, eclosure>>

NextRegex == ClassAdd \/ Quantify \/ Concatenate \/ Alternate \/ Compile

SpecRegex == InitRegex /\ [][NextRegex]_vars

(***************************************************************************)
(* The runtime Lexer (src/lexer.py): a DFA interpreter over the tables     *)
(* print_dfa emits.  transitions maps (state, byte) to a state and outputs *)
(* maps a state to its terminal; both are partial.  A token is (terminal,  *)
(* text), and lexeme is << >> for None and <<terminal>> otherwise.         *)
(***************************************************************************)
LexStates == {0, 1}
LexBytes == {97, 98}
LexTerminals == {1, 2}

\* for c in self.source[old_position:], from the character after position.
RECURSIVE get_next_token_loop(_, _, _, _, _)
get_next_token_loop(self, state, position, lexeme, new_position) ==
    IF position >= Len(self.source)
    THEN [lexeme |-> lexeme, new_position |-> new_position]
    ELSE IF <<state, self.source[position + 1]>> \notin DOMAIN self.transitions
    THEN [lexeme |-> lexeme, new_position |-> new_position]
    ELSE IF self.transitions[<<state, self.source[position + 1]>>]
                \in DOMAIN self.outputs
    THEN get_next_token_loop(
             self, self.transitions[<<state, self.source[position + 1]>>],
             position + 1,
             <<self.outputs[self.transitions[<<state, self.source[position + 1]>>]]>>,
             position + 1)
    ELSE get_next_token_loop(
             self, self.transitions[<<state, self.source[position + 1]>>],
             position + 1, lexeme, new_position)

\* Lexer.get_next_token: the Lexer after the call, with what the call
\* returned or raised.
get_next_token(self) ==
    IF self.position >= Len(self.source)
    THEN [self EXCEPT !.prev_position = self.position, !.token = <<END, None>>,
                      !.error = ""]
    ELSE LET found ==
                 IF self.initial_state \in DOMAIN self.outputs
                 THEN get_next_token_loop(self, self.initial_state, self.position,
                                          <<self.outputs[self.initial_state]>>,
                                          self.position + 1)
                 ELSE get_next_token_loop(self, self.initial_state, self.position,
                                          << >>, self.position)
         IN  IF found.lexeme = << >>
             THEN [self EXCEPT !.prev_position = self.position,
                               !.error = "LexerError"]
             ELSE [self EXCEPT !.prev_position = self.position,
                               !.position = found.new_position,
                               !.error = "",
                               !.token = <<found.lexeme[1],
                                           SubSeq(self.source, self.position + 1,
                                                  found.new_position)>>]

\* Lexer(transitions, initial_state, outputs, source)
InitLexer ==
    /\ pc = "lexer"
    /\ \E transitions \in UNION { [D -> LexStates] : D \in SUBSET (LexStates \X LexBytes) },
          outputs \in UNION { [D -> LexTerminals] : D \in SUBSET LexStates },
          source \in UNION { [1 .. n -> LexBytes] : n \in 0 .. MaxSource } :
          lexer = [transitions |-> transitions, initial_state |-> 0,
                   outputs |-> outputs, source |-> source, position |-> 0,
                   prev_position |-> 0, token |-> << >>, error |-> ""]
    /\ out = None
    /\ regex = None
    /\ nfa = None
    /\ efree = None
    /\ state_ids = None
    /\ dfa = None
    /\ lhs = None
    /\ rhs = None
    /\ sink = None
    /\ eclosure = None
    /\ rules = None
    /\ first = None
    /\ table = None
    /\ gen = None

\* lexer.get_next_token(), until it returns END or raises.
GetNextToken ==
    /\ pc \in {"lexer", "token"}
    /\ lexer.error = ""
    /\ IF lexer.token = << >> THEN TRUE ELSE lexer.token[1] # END
    /\ lexer' = get_next_token(lexer)
    /\ pc' = "token"
    /\ UNCHANGED <<out, regex, fsaVars, lrVars>>

NextLexer == GetNextToken

SpecLexer == InitLexer /\ [][NextLexer]_vars

(***************************************************************************)
(* The languages of automata, as the data model defines them: what the     *)
(* claims are stated against.                                              *)
(***************************************************************************)
Strings == UNION { [1 .. n -> Chars] : n \in 0 .. MaxLen }

\* The state a DFA is in after w; -1 is "no transition", and nothing leaves it.
RECURSIVE DFA_run(_, _, _)
DFA_run(d, s, w) ==
    IF s = -1 \/ Len(w) = 0 THEN s
    ELSE DFA_run(d, d.transitions[s + 1][Head(w)], Tail(w))

DFA_reached(d, w) == DFA_run(d, d.initial_state, w)
DFA_accepts(d, w) == DFA_reached(d, w) \in DOMAIN d.outputs
DFA_tags(d, w) == Get(d.outputs, DFA_reached(d, w), {})

\* The least set that contains S and is closed under EPSILON transitions.
RECURSIVE EClose(_, _)
EClose(n, S) ==
    LET S1 == S \cup UNION { Get(n.transitions, <<s, EPSILON>>, {}) : s \in S }
    IN  IF S1 = S THEN S ELSE EClose(n, S1)

\* The states an NFA may be in after w.
RECURSIVE NFA_run(_, _, _)
NFA_run(n, S, w) ==
    IF Len(w) = 0 THEN S
    ELSE NFA_run(n,
             EClose(n, UNION { Get(n.transitions, <<s, Head(w)>>, {}) : s \in S }),
             Tail(w))

NFA_reached(n, w) == NFA_run(n, EClose(n, {n.initial_state}), w)
NFA_accepts(n, w) == NFA_reached(n, w) \cap DOMAIN n.outputs # {}
NFA_tags(n, w) == UNION { Get(n.outputs, s, {}) : s \in NFA_reached(n, w) }

\* An NFA without its EPSILON transitions.
WithoutEpsilons(n) ==
    [n EXCEPT !.transitions =
        [k \in { k \in DOMAIN n.transitions : k[2] # EPSILON } |-> n.transitions[k]]]

(***************************************************************************)
(* C1: the union of two pipeline DFAs accepts a string iff one of the two  *)
(* accepts it, and the product state a string reaches carries exactly the  *)
(* tags of the states the two operands reach on it.                        *)
(***************************************************************************)
C1_UnionIsLanguageUnion ==
    pc = "union" =>
        \A w \in Strings :
            /\ DFA_accepts(dfa, w) <=> (DFA_accepts(lhs, w) \/ DFA_accepts(rhs, w))
            /\ DFA_tags(dfa, w) = DFA_tags(lhs, w) \cup DFA_tags(rhs, w)

\* A union in which some string is accepted by both operands under different tags.
C1_Witness ==
    /\ pc = "union"
    /\ \E w \in Strings :
           /\ DFA_accepts(lhs, w)
           /\ DFA_accepts(rhs, w)
           /\ DFA_tags(lhs, w) # DFA_tags(rhs, w)
           /\ Cardinality(DFA_tags(dfa, w)) = 2

(***************************************************************************)
(* C4: the NFA remove_epsilons returns has no transition on EPSILON and    *)
(* accepts exactly the strings the NFA it was called on accepts.           *)
(***************************************************************************)
C4_RemoveEpsilonsPreservesLanguage ==
    pc = "dfa" =>
        /\ \A k \in DOMAIN efree.transitions : k[2] # EPSILON
        /\ \A w \in Strings : NFA_accepts(efree, w) <=> NFA_accepts(nfa, w)

\* An NFA that accepts a non-empty string only by way of an EPSILON transition.
C4_Witness ==
    /\ pc = "dfa"
    /\ \E w \in Strings :
           /\ Len(w) > 0
           /\ NFA_accepts(nfa, w)
           /\ ~NFA_accepts(WithoutEpsilons(nfa), w)
           /\ NFA_accepts(efree, w)

(***************************************************************************)
(* C5: the output of a new state s' is the union of the tag sets of all    *)
(* the accepting states in the EPSILON closure of s.                       *)
(***************************************************************************)
C5_OutputsAreUnionOverClosure ==
    pc = "dfa" =>
        \A s \in DOMAIN state_ids :
            LET acc == EClose(nfa, {s}) \cap DOMAIN nfa.outputs
            IN  acc # {} =>
                    /\ state_ids[s] \in DOMAIN efree.outputs
                    /\ efree.outputs[state_ids[s]] =
                           UNION { nfa.outputs[t] : t \in acc }

(***************************************************************************)
(* C6: the DFA get_dfa returns for an EPSILON-free NFA accepts exactly the *)
(* strings the NFA accepts, the state a string reaches carries the tags of *)
(* all the NFA states the string reaches, and the DFA of the pipeline      *)
(* accepts exactly the strings the NFA with EPSILON transitions accepts.   *)
(***************************************************************************)
C6_SubsetConstructionPreservesLanguage ==
    pc = "dfa" =>
        \A w \in Strings :
            /\ DFA_accepts(dfa, w) <=> NFA_accepts(efree, w)
            /\ DFA_tags(dfa, w) = NFA_tags(efree, w)
            /\ DFA_accepts(dfa, w) <=> NFA_accepts(nfa, w)

\* An EPSILON-free NFA in which one string reaches two states of different tags.
C6_Witness ==
    /\ pc = "dfa"
    /\ \E w \in Strings :
           /\ Cardinality(NFA_reached(efree, w)) >= 2
           /\ Cardinality(NFA_tags(efree, w)) = 2
           /\ DFA_tags(dfa, w) = NFA_tags(efree, w)

(***************************************************************************)
(* C2: in DFA.union a component of a pair that is the sentinel -1 is a     *)
(* dead state, so that for DFAs whose tables hold -1 the union accepts     *)
(* exactly the strings one of the operands accepts, under their tags.      *)
(***************************************************************************)
C2_SentinelIsDeadInUnion ==
    pc = "union" =>
        \A w \in Strings :
            /\ DFA_accepts(dfa, w) <=> (DFA_accepts(lhs, w) \/ DFA_accepts(rhs, w))
            /\ DFA_tags(dfa, w) = DFA_tags(lhs, w) \cup DFA_tags(rhs, w)

(***************************************************************************)
(* C3: is_sink_state(s) is true iff no accepting state, s included, is     *)
(* reachable from s over transitions that are not -1, and the traversal    *)
(* visits only states of the DFA, at most |Q| of them.                     *)
(***************************************************************************)
\* The states reachable from those of S over the transitions that are not -1.
RECURSIVE DFA_reachable(_, _)
DFA_reachable(d, S) ==
    LET S1 == S \cup ({ d.transitions[s + 1][c] : s \in S, c \in Chars } \ {-1})
    IN  IF S1 = S THEN S ELSE DFA_reachable(d, S1)

C3_SinkIffNoAcceptingReachable ==
    pc = "sink" =>
        /\ sink.result <=>
               \A t \in DFA_reachable(lhs, {sink.state}) :
                   Cardinality(Get(lhs.outputs, t, {})) = 0
        /\ sink.explored \subseteq DFA_states(lhs)
        /\ Cardinality(sink.explored) <= Len(lhs.transitions)

(***************************************************************************)
(* FIRST as the grammar defines it, by derivations: what compute_first_map *)
(* is stated against.                                                      *)
(***************************************************************************)
\* The non-terminals that derive the empty string: the least set N that
\* holds the left-hand side of every rule whose right-hand side is in N*.
RECURSIVE NullableFrom(_, _)
NullableFrom(rules_, N) ==
    LET N1 == N \cup { rules_[k].lhs :
                       k \in { j \in 1 .. Len(rules_) :
                               \A i \in 1 .. Len(rules_[j].rhs) :
                                   rules_[j].rhs[i] \in N } }
    IN  IF N1 = N THEN N ELSE NullableFrom(rules_, N1)

Nullable(rules_) == NullableFrom(rules_, {})

\* The symbols X with A => alpha X beta in one step and alpha =>* empty.
BeginsWith(rules_, A) ==
    { X \in terminals \cup non_terminals :
      \E k \in 1 .. Len(rules_) :
          /\ rules_[k].lhs = A
          /\ \E i \in 1 .. Len(rules_[k].rhs) :
                 /\ rules_[k].rhs[i] = X
                 /\ \A j \in 1 .. i - 1 : rules_[k].rhs[j] \in Nullable(rules_) }

\* The symbols that begin a string derived from one of S in zero or more steps.
RECURSIVE BeginsFrom(_, _)
BeginsFrom(rules_, S) ==
    LET S1 == S \cup UNION { BeginsWith(rules_, A) : A \in S \cap non_terminals }
    IN  IF S1 = S THEN S ELSE BeginsFrom(rules_, S1)

FIRST(rules_, A) ==
    (BeginsFrom(rules_, {A}) \cap terminals) \cup
    (IF A \in Nullable(rules_) THEN {NIL} ELSE {})

\* The sizes a first map can go through: each pass but the last adds a symbol.
MaxPasses == Cardinality(non_terminals) * (Cardinality(terminals) + 1) + 1

(***************************************************************************)
(* C7: compute_first_map returns, for every non-terminal N, the terminals  *)
(* that begin a string N derives, and NIL iff N derives the empty string;  *)
(* its loop ends after a bounded number of passes, for left-recursive and  *)
(* nullable grammars too.                                                  *)
(***************************************************************************)
C7_FirstIsLeastFixpoint ==
    pc = "generated" =>
        /\ DOMAIN first = non_terminals
        /\ \A A \in non_terminals : first[A] = FIRST(rules, A)
        /\ gen.passes <= MaxPasses

\* A left-recursive rule whose non-terminal is nullable: the terminal after
\* it enters FIRST only in a later pass than NIL does.
C7_Witness ==
    /\ pc = "generated"
    /\ \E k \in 1 .. Len(rules) :
           /\ Len(rules[k].rhs) = 2
           /\ rules[k].rhs[1] = rules[k].lhs
           /\ rules[k].rhs[2] \in terminals
           /\ NIL \in first[rules[k].lhs]
           /\ rules[k].rhs[2] \in first[rules[k].lhs]
           /\ rules[k].rhs[2] \in first[GOAL]
    /\ gen.passes >= 3

(***************************************************************************)
(* C8: for the grammar S' -> S, S -> C C, C -> c C, C -> d generate        *)
(* explores exactly 10 states and every cell of the table it returns holds *)
(* exactly one action.                                                     *)
(***************************************************************************)
DragonRules ==
    << Production(0, GOAL, <<sym_S>>),
       Production(1, sym_S, <<sym_C, sym_C>>),
       Production(2, sym_C, <<sym_c, sym_C>>),
       Production(3, sym_C, <<sym_d>>) >>

C8_DragonGrammarTenStatesNoConflict ==
    (pc = "generated" /\ rules = DragonRules) =>
        /\ Cardinality(gen.explored) = 10
        /\ { cell[1] : cell \in DOMAIN table } = 0 .. 9
        /\ \A cell \in DOMAIN table : Cardinality(table[cell]) = 1

\* The table of the grammar, with its shifts, reductions, gotos and accept.
C8_Witness ==
    /\ pc = "generated"
    /\ rules = DragonRules
    /\ \A kind \in {SHIFT, REDUCE, ACCEPT, GOTO} :
           \E cell \in DOMAIN table : \E action \in table[cell] : action[1] = kind

(***************************************************************************)
(* C9: when rule 0 is the only production of GOAL and GOAL is on no        *)
(* right-hand side, every ACCEPT of the table is in a cell of symbol END   *)
(* and carries index 0, and every completed item [A -> alpha ., a] of a    *)
(* state, A not GOAL, puts REDUCE with the index of A -> alpha in the cell *)
(* of that state and a.                                                    *)
(***************************************************************************)
GoalIsAugmented(rules_) ==
    /\ \A k \in 2 .. Len(rules_) : rules_[k].lhs # GOAL
    /\ \A k \in 1 .. Len(rules_) :
           \A i \in 1 .. Len(rules_[k].rhs) : rules_[k].rhs[i] # GOAL

C9_AcceptOnlyAtEndReduceByIndex ==
    (pc = "generated" /\ GoalIsAugmented(rules)) =>
        /\ \A cell \in DOMAIN table : \A action \in table[cell] :
               action[1] = ACCEPT => (cell[2] = END /\ action[2] = 0)
        /\ \A state \in gen.explored : \A item \in state :
               (~has_successor(item) /\ item.rule.lhs # GOAL) =>
                   /\ <<gen.state_ids[state], item.lookahead>> \in DOMAIN table
                   /\ <<REDUCE, item.rule.index>> \in
                          table[<<gen.state_ids[state], item.lookahead>>]
                   /\ <<REDUCE, item.rule.index>> \in
                          gen.table[<<state, item.lookahead>>]

\* A table with an ACCEPT and with a REDUCE by a rule whose index is not its
\* left-hand side.
C9_Witness ==
    /\ pc = "generated"
    /\ GoalIsAugmented(rules)
    /\ \E cell \in DOMAIN table : <<ACCEPT, 0>> \in table[cell]
    /\ \E state \in gen.explored : \E item \in state :
           /\ ~has_successor(item)
           /\ item.rule.lhs # GOAL
           /\ item.rule.index # item.rule.lhs
           /\ item.lookahead # END
           /\ <<REDUCE, item.rule.index>> \in
                  table[<<gen.state_ids[state], item.lookahead>>]

(***************************************************************************)
(* C10: simplify_table numbers the states that occur in the table one to   *)
(* one onto 0 .. n-1, the initial state as 0, and the cell of (ID of       *)
(* state, symbol) holds the actions of the cell of (state, symbol), the    *)
(* target of a SHIFT or GOTO replaced by its ID, the data of a REDUCE or   *)
(* ACCEPT as it is.                                                        *)
(***************************************************************************)
\* The states that occur in a table: in a key, or as the target of an action.
StatesOf(table_) ==
    { key[1] : key \in DOMAIN table_ } \cup
    UNION { { action[2] : action \in { a \in table_[key] :
                                       a[1] \in {SHIFT, GOTO} } } :
            key \in DOMAIN table_ }

Renumbered(ids, action) ==
    IF action[1] \in {SHIFT, GOTO} THEN <<action[1], ids[action[2]]>> ELSE action

C10_SimplifyTableIsRenumbering ==
    pc = "generated" =>
        LET ids == gen.state_ids
            n == Cardinality(StatesOf(gen.table))
        IN  /\ DOMAIN ids = StatesOf(gen.table)
            /\ { ids[state] : state \in DOMAIN ids } = 0 .. n - 1
            /\ \A p, q \in DOMAIN ids : ids[p] = ids[q] => p = q
            /\ ids[gen.initial_state] = 0
            /\ DOMAIN table = { <<ids[key[1]], key[2]>> : key \in DOMAIN gen.table }
            /\ \A key \in DOMAIN gen.table :
                   table[<<ids[key[1]], key[2]>>] =
                       { Renumbered(ids, action) : action \in gen.table[key] }

\* A table of at least three states with a SHIFT whose target is neither the
\* initial state nor the state the SHIFT is in.
C10_Witness ==
    /\ pc = "generated"
    /\ Cardinality(DOMAIN gen.state_ids) >= 3
    /\ \E key \in DOMAIN gen.table : \E action \in gen.table[key] :
           /\ action[1] = SHIFT
           /\ gen.state_ids[action[2]] > 0
           /\ action[2] # key[1]
           /\ <<SHIFT, gen.state_ids[action[2]]>> \in
                  table[<<gen.state_ids[key[1]], key[2]>>]

(***************************************************************************)
(* C11: for a grammar with a shift/reduce or reduce/reduce conflict        *)
(* generate returns a table whose conflicting cell holds every one of the  *)
(* conflicting actions, and print_table prints a line for each action of   *)
(* each such cell and reports that conflicts were detected.                *)
(***************************************************************************)
\* The actions the items of state call for on symbol, over state IDs.
ActionsOf(state, symbol) ==
    { reduce_action(item) :
      item \in { i \in state : ~has_successor(i) /\ i.lookahead = symbol } } \cup
    { <<IF symbol \in terminals THEN SHIFT ELSE GOTO,
        gen.state_ids[closure(rules, first, kernel_of(state, symbol))]>> :
      x \in { i \in state : has_successor(i) /\ get_locus(i) = symbol } }

C11_ConflictsAreKeptAndReported ==
    pc = "printed" =>
        /\ out.error = ""
        /\ \A state \in gen.explored : \A symbol \in terminals \cup {END} :
               LET position == <<gen.state_ids[state], symbol>>
                   actions == ActionsOf(state, symbol)
               IN  Cardinality(actions) > 1 =>
                       /\ position \in DOMAIN table
                       /\ table[position] = actions
                       /\ \A action \in actions :
                              \E i \in 1 .. Len(out.lines) :
                                  out.lines[i] = [conflict |-> TRUE,
                                                  position |-> position,
                                                  action |-> action]
                       /\ out.conflicts
        /\ out.conflicts <=>
               \E state \in gen.explored : \E symbol \in terminals \cup {END} :
                   Cardinality(ActionsOf(state, symbol)) > 1

\* A table with a shift/reduce conflict and a reduce/reduce conflict, printed.
C11_Witness ==
    /\ pc = "printed"
    /\ out.conflicts
    /\ \E position \in DOMAIN table :
           \E a, b \in table[position] : a[1] = SHIFT /\ b[1] = REDUCE
    /\ \E position \in DOMAIN table :
           \E a, b \in table[position] : a[1] = REDUCE /\ b[1] = REDUCE /\ a # b

(***************************************************************************)
(* The language of a grammar, by derivations: what a parsing table is      *)
(* stated against.                                                         *)
(***************************************************************************)
TokenStrings == UNION { [1 .. n -> terminals] : n \in 0 .. MaxTokens }

\* symbol derives w, given for each pair of a non-terminal and a string
\* whether the non-terminal is known to derive the string.
DerivesIn(D, symbol, w) ==
    IF symbol \in terminals THEN w = <<symbol>> ELSE D[<<symbol, w>>]

\* The symbols of rhs from the i-th on derive w.
RECURSIVE RhsDerives(_, _, _, _)
RhsDerives(D, rhs_, i, w) ==
    IF i > Len(rhs_) THEN w = << >>
    ELSE \E k \in 0 .. Len(w) :
             /\ DerivesIn(D, rhs_[i], SubSeq(w, 1, k))
             /\ RhsDerives(D, rhs_, i + 1, SubSeq(w, k + 1, Len(w)))

\* The least relation closed under the rules.
RECURSIVE DerivesFrom(_, _)
DerivesFrom(rules_, D) ==
    LET D1 == [pair \in non_terminals \X TokenStrings |->
                  \/ D[pair]
                  \/ \E k \in 1 .. Len(rules_) :
                         /\ rules_[k].lhs = pair[1]
                         /\ RhsDerives(D, rules_[k].rhs, 1, pair[2])]
    IN  IF D1 = D THEN D ELSE DerivesFrom(rules_, D1)

\* The strings of at most MaxTokens tokens the goal symbol derives.
Language(rules_) ==
    LET D == DerivesFrom(rules_, [pair \in non_terminals \X TokenStrings |-> FALSE])
    IN  { w \in TokenStrings : D[<<GOAL, w>>] }

ConflictFree(table_) == \A position \in DOMAIN table_ : Cardinality(table_[position]) = 1

(***************************************************************************)
(* C12: on a table of one action per cell the LR driver, started in state  *)
(* 0 on a token string followed by END, reaches ACCEPT iff the grammar     *)
(* derives the string.                                                     *)
(***************************************************************************)
C12_ConflictFreeTableAcceptsLanguage ==
    (pc = "generated" /\ ConflictFree(table)) =>
        { w \in TokenStrings : parse(table, rules, w) = "accept" } = Language(rules)

\* A conflict-free table that accepts the empty string and a string of
\* MaxTokens tokens, and rejects some string.
C12_Witness ==
    /\ pc = "generated"
    /\ ConflictFree(table)
    /\ parse(table, rules, << >>) = "accept"
    /\ \E w \in TokenStrings : Len(w) = MaxTokens /\ parse(table, rules, w) = "accept"
    /\ \E w \in TokenStrings : parse(table, rules, w) = "error"

(***************************************************************************)
(* The closure of a set of items as the grammar defines it.                *)
(***************************************************************************)
\* FIRST(beta a), beta the symbols of rhs from the i-th on: a is in it iff
\* every symbol of beta is nullable.
RECURSIVE FirstOfString(_, _, _, _)
FirstOfString(rules_, rhs_, i, a) ==
    IF i > Len(rhs_) THEN {a}
    ELSE IF rhs_[i] \in terminals THEN {rhs_[i]}
    ELSE (FIRST(rules_, rhs_[i]) \ {NIL}) \cup
         (IF rhs_[i] \in Nullable(rules_)
          THEN FirstOfString(rules_, rhs_, i + 1, a) ELSE {})

\* The items [B -> . gamma, b] that an item [A -> alpha . B beta, a] calls for.
CalledFor(rules_, item) ==
    IF ~has_successor(item) \/ get_locus(item) \notin non_terminals THEN {}
    ELSE { Item(rules_[k], 0, b) :
           k \in { j \in 1 .. Len(rules_) : rules_[j].lhs = get_locus(item) },
           b \in FirstOfString(rules_, item.rule.rhs, item.cursor + 2,
                               item.lookahead) }

RECURSIVE LeastClosure(_, _)
LeastClosure(rules_, S) ==
    LET S1 == S \cup UNION { CalledFor(rules_, item) : item \in S }
    IN  IF S1 = S THEN S ELSE LeastClosure(rules_, S1)

\* The kernels generate passes to closure: the initial one, and one for each
\* explored state and symbol at the cursor of one of its items.
KernelsOf(rules_, explored) ==
    { <<Item(rules_[1], 0, END)>> } \cup
    ({ kernel_of(state, symbol) :
       state \in explored, symbol \in terminals \cup non_terminals } \ { << >> })

(***************************************************************************)
(* C20: closure(K) returns the least item set that contains K and, with an *)
(* item [A -> alpha . B beta, a], B a non-terminal, the item [B -> . gamma,*)
(* b] for every production of B and every b in FIRST(beta a); NIL is the   *)
(* lookahead of no item of it, and the list K is empty when it returns.    *)
(***************************************************************************)
C20_ClosureIsLeastItemSet ==
    pc = "generated" =>
        \A kernel \in KernelsOf(rules, gen.explored) :
            LET run == closure_run(rules, first, kernel)
            IN  /\ run.state =
                       LeastClosure(rules, { kernel[i] : i \in 1 .. Len(kernel) })
                /\ \A item \in run.state : item.lookahead # NIL
                /\ run.kernel = << >>

\* A closure with an item [A -> . B beta, a], beta nullable and not empty,
\* that brings in items of B with lookahead a and with another one.
C20_Witness ==
    /\ pc = "generated"
    /\ \E kernel \in KernelsOf(rules, gen.explored) :
           \E item \in closure(rules, first, kernel) :
               /\ has_successor(item)
               /\ get_locus(item) \in non_terminals
               /\ item.cursor + 2 <= Len(item.rule.rhs)
               /\ \A i \in item.cursor + 2 .. Len(item.rule.rhs) :
                      item.rule.rhs[i] \in Nullable(rules)
               /\ \E new \in closure(rules, first, kernel), other \in terminals :
                      /\ new.rule.lhs = get_locus(item)
                      /\ new.cursor = 0
                      /\ new.lookahead = item.lookahead
                      /\ Item(new.rule, 0, other) \in closure(rules, first, kernel)
                      /\ other # item.lookahead

(***************************************************************************)
(* C19: once generation has finished the generated structures are frozen:  *)
(* print_table leaves self.table as generate returned it, and a second     *)
(* call prints what the first call printed.                                *)
(***************************************************************************)
C19_PrintLeavesTablesUnchanged ==
    pc \in {"printed", "printed again"} =>
        /\ table = generate(rules, first)
        /\ out = printed(print_table(generate(rules, first)))

(***************************************************************************)
(* The tokens of a regex source as the language defines them.              *)
(***************************************************************************)
\* The length of the token that starts after position p of source: 1 for a
\* byte, 2 for \X, 4 for \xHH, and 0 when what starts there is no token.
TokenLength(source, p) ==
    IF source[p + 1] # 92 THEN 1
    ELSE IF p + 2 > Len(source) THEN 0
    ELSE IF source[p + 2] # 120 THEN 2
    ELSE IF /\ p + 4 <= Len(source)
            /\ source[p + 3] \in HEXADECIMAL_CHARS
            /\ source[p + 4] \in HEXADECIMAL_CHARS THEN 4
    ELSE 0

HexDigits == [c \in HEXADECIMAL_CHARS |->
                 IF c <= 57 THEN c - 48 ELSE IF c <= 70 THEN c - 55 ELSE c - 87]

\* The token that starts after position p, TokenLength(source, p) not 0.
TokenAt(source, p) ==
    IF TokenLength(source, p) = 1
    THEN <<IF source[p + 1] \in {124, 42, 43, 63, 40, 41, 91, 93, 94, 45}
           THEN SPECIAL_CHARS[source[p + 1]] ELSE CHAR, source[p + 1]>>
    ELSE IF TokenLength(source, p) = 4
    THEN <<CHAR, 16 * HexDigits[source[p + 3]] + HexDigits[source[p + 4]]>>
    ELSE <<CHAR, IF source[p + 2] = 110 THEN 10
                 ELSE IF source[p + 2] = 116 THEN 9 ELSE source[p + 2]>>

(***************************************************************************)
(* C15: when what starts at the position is an escape that the source ends *)
(* in the middle of (a trailing \, \x or \xH) or a \x that a character     *)
(* other than a hex digit follows, lex raises LexerError and fails in no   *)
(* other way.                                                              *)
(***************************************************************************)
C15_MalformedEscapeIsLexerError ==
    (/\ pc = "lexing"
     /\ lexer.prev_position < Len(lexer.source)
     /\ TokenLength(lexer.source, lexer.prev_position) = 0) =>
        lexer.error = "LexerError"

(***************************************************************************)
(* C16: on a well-formed token lex raises nothing, advances position by 1  *)
(* (a byte), 2 (\X) or 4 (\xHH) and returns the token: the structural      *)
(* terminal of an unescaped metacharacter, else CHAR with 10 for \n, 9 for *)
(* \t, the hex value of \xHH, the byte X of another \X, or the byte        *)
(* itself; at the end of the source it returns (END, None).                *)
(***************************************************************************)
C16_LexReturnsOneToken ==
    pc = "lexing" =>
        IF lexer.prev_position >= Len(lexer.source)
        THEN /\ lexer.error = ""
             /\ lexer.token[1] = END
             /\ lexer.token[2] = None
             /\ lexer.position = lexer.prev_position
        ELSE TokenLength(lexer.source, lexer.prev_position) # 0 =>
                 /\ lexer.error = ""
                 /\ lexer.position - lexer.prev_position =
                        TokenLength(lexer.source, lexer.prev_position)
                 /\ lexer.position - lexer.prev_position \in {1, 2, 4}
                 /\ lexer.token = TokenAt(lexer.source, lexer.prev_position)

\* The token \x0F, of value 15, lexed from a source of four bytes.
C16_Witness ==
    /\ pc = "lexing"
    /\ lexer.source = <<92, 120, 48, 70>>
    /\ lexer.prev_position = 0
    /\ lexer.position = 4
    /\ lexer.error = ""
    /\ lexer.token = <<CHAR, 15>>

(***************************************************************************)
(* The longest match of a DFA's tables in a source, as the data model      *)
(* defines it.                                                             *)
(***************************************************************************)
\* The state the tables reach from state over w, -1 once an entry is missing.
RECURSIVE Lexer_run(_, _, _)
Lexer_run(self, state, w) ==
    IF state = -1 \/ Len(w) = 0 THEN state
    ELSE Lexer_run(self, Get(self.transitions, <<state, Head(w)>>, -1), Tail(w))

\* The lengths of the prefixes of the input after position p that drive the
\* tables from initial_state to an accepting state.
MatchLengths(self, p) ==
    { n \in 0 .. Len(self.source) - p :
        Lexer_run(self, self.initial_state, SubSeq(self.source, p + 1, p + n))
            \in DOMAIN self.outputs }

LongestMatch(self, p) ==
    CHOOSE n \in MatchLengths(self, p) : \A k \in MatchLengths(self, p) : k <= n

(***************************************************************************)
(* C17: get_next_token called before the end of the source returns the     *)
(* terminal of the longest prefix of the remaining input that drives the   *)
(* DFA from initial_state to an accepting state, with that prefix as the   *)
(* text, and leaves position at its end; when no prefix does, it raises    *)
(* LexerError and leaves position where it was.                            *)
(***************************************************************************)
C17_GetNextTokenIsLongestMatch ==
    (pc = "token" /\ lexer.prev_position < Len(lexer.source)) =>
        IF MatchLengths(lexer, lexer.prev_position) = {}
        THEN /\ lexer.error = "LexerError"
             /\ lexer.position = lexer.prev_position
        ELSE /\ lexer.error = ""
             /\ lexer.position =
                    lexer.prev_position + LongestMatch(lexer, lexer.prev_position)
             /\ lexer.token[2] =
                    SubSeq(lexer.source, lexer.prev_position + 1, lexer.position)
             /\ lexer.token[1] =
                    lexer.outputs[Lexer_run(lexer, lexer.initial_state, lexer.token[2])]

(***************************************************************************)
(* The printed tables as an automaton: a run over the printed transitions, *)
(* a missing entry rejecting, accepts in a state that has an output line.  *)
(***************************************************************************)
RECURSIVE Printed_run(_, _, _)
Printed_run(o, state, w) ==
    IF state = -1 \/ Len(w) = 0 THEN state
    ELSE Printed_run(o, Get(o.transitions, <<state, Head(w)>>, -1), Tail(w))

Printed_accepts(o, w) == Printed_run(o, o.initial_state, w) \in DOMAIN o.outputs

\* The DFA compute_dfa returned, which print_dfa was called on.
Combined == IF pc = "dfa printed" THEN get_dfa(efree) ELSE union(lhs, rhs)

\* A sink state, as the glossary defines it: no accepting state is reachable.
Sink(d, s) ==
    \A t \in DFA_reachable(d, {s}) : Cardinality(Get(d.outputs, t, {})) = 0

(***************************************************************************)
(* C18: the printed transition table holds (s, c) -> t exactly when        *)
(* delta(s, c) = t and neither s nor t is a sink state, and the printed    *)
(* tables accept exactly the strings the combined DFA accepts.             *)
(***************************************************************************)
C18_PrintedTableOmitsExactlySinks ==
    pc \in {"dfa printed", "union printed"} =>
        LET d == Combined
            sinks == { s \in DFA_states(d) : Sink(d, s) }
        IN  /\ out.error = ""
            /\ \A s \in DFA_states(d), c \in Chars, t \in DFA_states(d) \cup {-1} :
                   (<<s, c>> \in DOMAIN out.transitions /\ out.transitions[<<s, c>>] = t)
                   <=> (/\ d.transitions[s + 1][c] = t
                        /\ t # -1
                        /\ s \notin sinks
                        /\ t \notin sinks)
            /\ DOMAIN out.transitions \subseteq DFA_states(d) \X Chars
            /\ \A w \in Strings : Printed_accepts(out, w) <=> DFA_accepts(d, w)

\* A combined DFA with an accepting path and a sink: some entries were
\* printed, an entry into a sink was left out, and a string is accepted.
C18_Witness ==
    /\ pc = "union printed"
    /\ out.error = ""
    /\ DOMAIN out.transitions # {}
    /\ \E s \in DFA_states(Combined), c \in Chars :
           /\ ~Sink(Combined, s)
           /\ Sink(Combined, Combined.transitions[s + 1][c])
           /\ <<s, c>> \notin DOMAIN out.transitions
    /\ \E w \in Strings : Len(w) > 0 /\ Printed_accepts(out, w)

(***************************************************************************)
(* The language of a regular expression, as the grammar and the Thompson   *)
(* mappings define it: a byte matches itself, a class the bytes of the     *)
(* items before the ^ that are not bytes of the items after it, lo-hi the  *)
(* bytes from lo to hi inclusive, and * + ? | and concatenation as usual.  *)
(***************************************************************************)
ItemBytes(item) == IF Len(item) = 1 THEN {item[1]} ELSE item[1] .. item[2]
ClassBytes(items) == UNION { ItemBytes(items[i]) : i \in 1 .. Len(items) }

RECURSIVE Matches(_, _)
Matches(e, w) ==
    IF e.op = "char" THEN w = <<e.c>>
    ELSE IF e.op = "class"
    THEN Len(w) = 1 /\ w[1] \in ClassBytes(e.pos) \ ClassBytes(e.neg)
    ELSE IF e.op = "?" THEN Len(w) = 0 \/ Matches(e.e, w)
    ELSE IF e.op = "*"
    THEN \/ Len(w) = 0
         \/ \E k \in 1 .. Len(w) :
                /\ Matches(e.e, SubSeq(w, 1, k))
                /\ Matches(e, SubSeq(w, k + 1, Len(w)))
    ELSE IF e.op = "+"
    THEN \E k \in 0 .. Len(w) :
             /\ Matches(e.e, SubSeq(w, 1, k))
             /\ Matches(Quantified("*", e.e), SubSeq(w, k + 1, Len(w)))
    ELSE IF e.op = "concat"
    THEN \E k \in 0 .. Len(w) :
             /\ Matches(e.l, SubSeq(w, 1, k))
             /\ Matches(e.r, SubSeq(w, k + 1, Len(w)))
    ELSE Matches(e.l, w) \/ Matches(e.r, w)

\* The inputs on which a compiled DFA is compared with its expression.
RegexStrings == UNION { [1 .. n -> Chars] : n \in 0 .. (MaxLen + 1) }

(***************************************************************************)
(* C13: the regex that is the hex escape of the last byte of the alphabet  *)
(* (\xFF of 256 bytes) compiles to a DFA of exactly two states with        *)
(* exactly one defined edge, on that byte, from the initial state to the   *)
(* accepting state.                                                        *)
(***************************************************************************)
C13_LastByteRegexTwoStatesOneEdge ==
    (pc = "compiled" /\ regex = Char(NumChars - 1, "hex")) =>
        /\ out.error = ""
        /\ Len(dfa.transitions) = 2
        /\ { k \in DFA_states(dfa) \X Chars : dfa.transitions[k[1] + 1][k[2]] # -1 }
               = { <<dfa.initial_state, NumChars - 1>> }
        /\ dfa.transitions[dfa.initial_state + 1][NumChars - 1] \in DOMAIN dfa.outputs

(***************************************************************************)
(* C14: the DFA compiled from a regex accepts exactly the strings the      *)
(* regex matches (A+ needs one repetition at least, lo-hi is the inclusive *)
(* range, X^Y is the bytes of X that are not in Y), and every accepting    *)
(* state carries exactly the terminal given to the compiler.               *)
(***************************************************************************)
C14_CompiledDfaAcceptsRegexLanguage ==
    pc = "compiled" =>
        /\ out.error = ""
        /\ \A w \in RegexStrings : DFA_accepts(dfa, w) <=> Matches(regex, w)
        /\ \A state \in DOMAIN dfa.outputs : dfa.outputs[state] = {out.output}

\* [\x00-\x02^\x01]+ compiled: one, two and three bytes of 0 and 2 are
\* accepted, and the empty string, byte 1 and byte 3 are rejected.
C14_Witness ==
    /\ pc = "compiled"
    /\ regex = Quantified("+", Class(<< <<0, 2>> >>, << <<1>> >>))
    /\ lexer.source = <<91, 92, 120, 48, 48, 45, 92, 120, 48, 50, 94,
                        92, 120, 48, 49, 93, 43>>
    /\ out.error = ""
    /\ DFA_accepts(dfa, <<0>>)
    /\ DFA_accepts(dfa, <<2, 0>>)
    /\ DFA_accepts(dfa, <<0, 0, 2>>)
    /\ ~DFA_accepts(dfa, << >>)
    /\ ~DFA_accepts(dfa, <<1>>)
    /\ ~DFA_accepts(dfa, <<3>>)
    /\ DFA_tags(dfa, <<2, 0>>) = {out.output}

(***************************************************************************)
(* What is asked of a call of epsilon_closure.                             *)
(***************************************************************************)
\* The states an EPSILON transition leads to from state u.
EpsilonSuccessors(n, u) == Get(n.transitions, <<u, EPSILON>>, {})

\* X holds every state an EPSILON transition leads to from one of its states.
EpsilonClosed(n, X) == \A u \in X : EpsilonSuccessors(n, u) \subseteq X

\* C is the least set that holds s and is closed under EPSILON transitions.
LeastEpsilonClosed(n, s, C) ==
    /\ s \in C
    /\ EpsilonClosed(n, C)
    /\ \A X \in SUBSET NFA_states(n) :
           (s \in X /\ EpsilonClosed(n, X)) => C \subseteq X

\* How often state t has been put on the work-list.
TimesPushed(t) ==
    Cardinality({ i \in 1 .. Len(eclosure.e.pushed) : eclosure.e.pushed[i] = t })

\* The EPSILON transitions that enter state t from another state.
EpsilonEntries(n, t) ==
    Cardinality({ u \in NFA_states(n) \ {t} : t \in EpsilonSuccessors(n, u) })

(***************************************************************************)
(* C21 as stated: for every NFA, EPSILON cycles included, and state s,     *)
(* epsilon_closure(s) terminates and returns the least set that holds s    *)
(* and is closed under EPSILON transitions, and during the traversal each  *)
(* state is put on the work-list at most once.                             *)
(***************************************************************************)
C21_EachStateOnWorkListAtMostOnce ==
    /\ [](pc \in {"closure", "closure done"} =>
              \A t \in NFA_states(nfa) : TimesPushed(t) <= 1)
    /\ [](pc = "closure done" =>
              LeastEpsilonClosed(nfa, eclosure.state, eclosure.e.closure))
    /\ <>(pc = "closure done")

(***************************************************************************)
(* C21 as amended: for every NFA, EPSILON cycles included, and state s,    *)
(* epsilon_closure(s) terminates and returns the least set that holds s    *)
(* and is closed under EPSILON transitions, and during the traversal s is  *)
(* put on the work-list once and every other state at most once for each   *)
(* EPSILON transition that enters it from another state.                   *)
(***************************************************************************)
C21_ClosureTerminatesWithLeastSet ==
    /\ [](pc \in {"closure", "closure done"} =>
              \A t \in NFA_states(nfa) :
                  TimesPushed(t) <= IF t = eclosure.state THEN 1
                                    ELSE EpsilonEntries(nfa, t))
    /\ [](pc = "closure done" =>
              LeastEpsilonClosed(nfa, eclosure.state, eclosure.e.closure))
    /\ <>(pc = "closure done")

\* 0 -> {1, 2} and 2 -> 1 on EPSILON, closure of 0: state 2 is popped first
\* and puts state 1 on the work-list a second time; the closure is all three.
C21_Witness ==
    /\ pc = "closure done"
    /\ eclosure.state = 0
    /\ EpsilonSuccessors(nfa, 0) = {1, 2}
    /\ EpsilonSuccessors(nfa, 2) = {1}
    /\ eclosure.e.pushed = <<0, 1, 2, 1>>
    /\ eclosure.e.closure = {0, 1, 2}

(***************************************************************************)
(* What is asked of a DFA of the pipeline.                                 *)
(***************************************************************************)
\* The DFA starts in state 0, every entry of its table is one of its states
\* (none is the sentinel -1), and every key of outputs is one of its states
\* with a tag set that is not empty.
Total(d) ==
    /\ d.initial_state = 0
    /\ 0 \in DFA_states(d)
    /\ \A s \in DFA_states(d), c \in Chars :
           /\ d.transitions[s + 1][c] # -1
           /\ d.transitions[s + 1][c] \in DFA_states(d)
    /\ \A k \in DOMAIN d.outputs :
           /\ k \in DFA_states(d)
           /\ d.outputs[k] # {}

\* State s accepts nothing and is never left.
Dead(d, s) ==
    /\ s \notin DOMAIN d.outputs
    /\ \A c \in Chars : d.transitions[s + 1][c] = s

(***************************************************************************)
(* C22: every DFA get_dfa returns, and every union of two of them, is      *)
(* total: its initial state is 0, no entry of its table is -1 and every    *)
(* entry is one of its states, every key of outputs is one of its states   *)
(* with a non-empty tag set, and a string for which the NFA (in a union,   *)
(* either operand) has no transition left leads to a dead state, one that  *)
(* is not accepting and is never left.                                     *)
(***************************************************************************)
C22_PipelineDfaIsTotal ==
    /\ pc = "dfa" =>
           /\ Total(dfa)
           /\ \A w \in Strings :
                  NFA_reached(efree, w) = {} =>
                      LET reached == DFA_reached(dfa, w)
                      IN  Dead(dfa, reached)
    /\ pc = "union" =>
           /\ Total(lhs)
           /\ Total(rhs)
           /\ Total(dfa)
           /\ \A w \in Strings :
                  LET l == DFA_reached(lhs, w)
                      r == DFA_reached(rhs, w)
                      reached == DFA_reached(dfa, w)
                  IN  (Dead(lhs, l) /\ Dead(rhs, r)) => Dead(dfa, reached)

\* A union whose operands both lack a transition: some string leads each
\* operand, and the union, to a dead state, and another is accepted.
C22_Witness ==
    /\ pc = "union"
    /\ Total(dfa)
    /\ \E w \in Strings :
           /\ Dead(lhs, DFA_reached(lhs, w))
           /\ Dead(rhs, DFA_reached(rhs, w))
           /\ Dead(dfa, DFA_reached(dfa, w))
           /\ DFA_reached(dfa, w) # 0
    /\ \E w \in Strings : DFA_accepts(dfa, w)

====
